---- MODULE Spec2Model ----
(***************************************************************************)
(* Verification model of the visionary-video-editor synchronisation core:  *)
(* the editor state of App (the component in src/supabase-schema.sql), the *)
(* anchor-based audio slicer, the live sequencer and the canvas export of  *)
(* src/services/ffmpegService.ts.                                          *)
(*                                                                         *)
(* Times are integers in centiseconds (0.01 s): 0.1 s = 10, 0.5 s = 50.    *)
(* Rates are integers in thousandths (1.0 = 1000).                         *)
(***************************************************************************)
EXTENDS Integers, Sequences, FiniteSets, TLC

VARIABLES
    clips,                \* App state `clips`: the ordered segment list
    masterAudioUrl,       \* App state `masterAudioUrl`
    activeClipId,         \* App state `activeClipId` (0 = null)
    isPlaying,            \* App state `isPlaying`
    currentSequenceTime,  \* App state `currentSequenceTime`
    editingClipId,        \* App state `editingClipId` (0 = null)
    hasVideo,             \* App state `video` is non-null
    hasAnalyzed,          \* App state `hasAnalyzed`
    isDeepScanning,       \* App state `isDeepScanning`
    isPolishing,          \* App state `isPolishing`
    polishIds,            \* ids of the clips sent by the pending handlePolishScripts
    isGeneratingAllAudio, \* App state `isGeneratingAllAudio`
    genPhase,             \* position of the pending handleGenerateAllAudio call
    genClips,             \* the `clips` captured by that call's closure
    genResult,            \* what the last synthesis call returned (none yet, rejected, an alignment)
    genCount,             \* number of master audio blobs created so far
    nextId,               \* ids handed out by generateId so far
    editCount,            \* edits of the segment list made by the user so far
    vidTime,              \* videoRef.current.currentTime
    vidPaused,            \* videoRef.current.paused
    vidRate,              \* videoRef.current.playbackRate, in thousandths
    audTime,              \* audioPlayerRef.current.currentTime
    audPaused,            \* audioPlayerRef.current.paused
    audDuration,          \* audioPlayerRef.current.duration
    audTickPending,       \* a timeupdate event of the audio element is queued
    audEvents,            \* queued play / pause / waiting / playing events of the audio element
    audStalled,           \* the audio element waits for data (not paused, not advancing)
    isTransitioning,      \* isTransitioningRef.current
    timers,               \* time left on the pending setTimeout callbacks of seeks
    playOps,              \* clicks on the play button and the progress bar so far
    isExporting,          \* App state `isExporting`
    exPhase,              \* position of the pending renderVideo call in its setup
    video,                \* renderVideo: the hidden video element
    canvas,               \* renderVideo: the canvas
    audioElement,         \* renderVideo: the audio element of the master audio
    audioCtx,             \* renderVideo: the audio context
    recorder,             \* renderVideo: recorder.state
    stopEventPending,     \* the recorder's stop event is queued
    isFinished,           \* renderVideo: isFinished
    animationFrameId,     \* renderVideo: animationFrameId (0 = undefined, 1 = an id)
    framePending,         \* the frame callback requested last is still scheduled
    renderLoopPc,         \* position of the renderLoop invocation that ran last
    totalDuration,        \* renderVideo: totalDuration
    exTime,               \* the export clock: audioElement.currentTime or elapsed time
    exAudDuration,        \* duration of the audio element's resource
    exAudPaused,          \* audioElement.paused
    endedEventPending,    \* the audio element's ended event is queued
    exVidPaused,          \* video.paused of the hidden video
    exVidTime,            \* video.currentTime of the hidden video
    exVidRate,            \* video.playbackRate of the hidden video, in thousandths
    exPromise,            \* state of the promise returned by renderVideo
    exSteps,              \* the completion steps taken so far, in order
    finishCalls,          \* calls of finishRender
    finishRuns,           \* executions of finishRender past its guard
    stopCalls,            \* calls of recorder.stop()
    resolveCalls,         \* calls of resolve(blob)
    tlClips,              \* Timeline prop `clips`
    tlRawTime,            \* a raw video time: videoRef.current.currentTime in the Timeline
    tlSeqTime,            \* a sequence time: the position of the playhead or of a click
    tlClipInfo,           \* index of the clipInfo returned last (0 = null)
    cache,                \* ThumbnailCache.cache: entries in insertion order
    now,                  \* Date.now(), in milliseconds
    cacheOps,             \* operations made on the thumbnail cache so far
    waveformCache,        \* keys of the global waveformCache map
    zoomScale,            \* zoomScale of the zoom store, in ten-thousandths
    lastZoomTime,         \* lastZoomTimeRef.current of the Timeline, in milliseconds
    gwfPc,                \* position of the generateWithFallback call in flight
    gwfAttempts,          \* the generateContent calls of that call: model and outcome
    gwfWaited,            \* milliseconds waited between its attempts
    gwfCalls,             \* calls of generateWithFallback so far
    uploadsPending        \* processVideoFile calls that await uploadMedia

editorVars == <<clips, masterAudioUrl, activeClipId, isPlaying, currentSequenceTime,
                editingClipId, hasVideo, hasAnalyzed, isDeepScanning, isPolishing,
                polishIds, isGeneratingAllAudio, genPhase, genClips, genResult, genCount,
                nextId, editCount, vidTime>>

seqVars == <<vidPaused, vidRate, audTime, audPaused, audDuration, audTickPending,
             audEvents, audStalled, isTransitioning, timers, playOps>>

exportVars == <<isExporting, exPhase, video, canvas, audioElement, audioCtx, recorder,
                stopEventPending, isFinished, animationFrameId, framePending,
                renderLoopPc, totalDuration, exTime, exAudDuration, exAudPaused,
                endedEventPending, exVidPaused, exVidTime, exVidRate, exPromise, exSteps,
                finishCalls, finishRuns, stopCalls, resolveCalls>>

timelineVars == <<tlClips, tlRawTime, tlSeqTime, tlClipInfo>>

cacheVars == <<cache, now, cacheOps>>

zoomVars == <<zoomScale, lastZoomTime>>

geminiVars == <<gwfPc, gwfAttempts, gwfWaited, gwfCalls, uploadsPending>>

vars == <<editorVars, seqVars, exportVars, timelineVars, cacheVars, waveformCache,
          zoomVars, geminiVars>>

-----------------------------------------------------------------------------
(* Bounds of the model *)

MaxIds == 4          \* ids generateId may hand out in one run
MaxGen == 2          \* master audio generations in one run
MaxEdits == 2        \* edits of the segment list in one run
MaxEvents == 2       \* queued media events awaiting dispatch
MaxPlayOps == 3      \* clicks on the play button and the progress bar in one run
MaxLen == 6          \* characters of an alignment handed to the slicer
MaxSegments == 3     \* polished segments of a project handed to the slicer
MantissaBits == 4    \* bits of significand of the numbers of the Timeline (a double has 53)
MaxClips == 2        \* clips of a list handed to the Timeline
MaxKeys == 21        \* distinct thumbnail requests (cache keys)
MaxOps == 3          \* operations on the thumbnail cache in one run
MaxWaveforms == 7    \* distinct waveform requests (cache keys)
MaxTexts == 2        \* polished segments whose texts are joined
MaxTextLen == 3      \* characters of a polished text
MaxImports == 2      \* imports of a video file in one run
MaxCalls == 2        \* calls of generateWithFallback in one run
MaxWheelMs == 48     \* milliseconds of wheel events in one run
VideoLength == 400   \* length of the uploaded video file

(* Program constants, in the model's units *)

UNDEFINED == -1      \* an absent optional number field of a Clip
PAD_LAST == 50       \* "Last clip: add 0.5s padding"
MIN_AUDIO_DUR == 10  \* "if (audioDur > 0.1) rate = videoDur / audioDur"
MIN_PART == 50       \* parts shorter than 0.5 s are dropped / not split
RATE_ONE == 1000     \* rate 1.0
MAX_VIDEO_RATE == 1500   \* "Cap playback speed at 1.5x"
MIN_VIDEO_RATE == 100    \* Math.max(0.1, requiredRate)
DRIFT_TOLERANCE == 20    \* "Only seek if drift > 0.2s"
END_TOLERANCE == 10      \* audioTime >= aud.duration - 0.1
EXPORT_END_TOLERANCE == 10   \* currentTime >= (totalDuration - 0.1)
EXPORT_DRIFT == 20       \* "if (drift > 0.2)"
EXPORT_MIN_RATE == 100   \* Math.max(0.1, ...)
EXPORT_MAX_RATE == 4000  \* Math.min(4.0, requiredRate)
SEEK_LOCK == 10          \* setTimeout(..., 100) of handleGlobalSeek
ELEVEN_LABS_SPEED == 1000  \* elevenLabsSettings.elevenLabsSpeed (default 1.0)

ZOOM_UNIT == 10000   \* the zoom scale 1, in the model's ten-thousandths
ZOOM_MIN == 1000     \* ZOOM_CONSTRAINTS.min: 0.1
ZOOM_MAX == 100000   \* ZOOM_CONSTRAINTS.max: 10
ZOOM_STEP == 1000    \* ZOOM_CONSTRAINTS.step: 0.1
THROTTLE_MS == 16    \* if (now - lastZoomTimeRef.current < 16) return
ZOOM_DEFAULT == 10000  \* ZOOM_CONSTRAINTS.default: 1
RETRY_DELAY == 4000  \* await delay(4000) of generateWithFallback, in milliseconds
maxEntries == 20     \* ThumbnailCache.maxEntries
maxAgeMs == 600000   \* ThumbnailCache.maxAgeMs: 10 * 60 * 1000

NoUrl == [kind |-> "none", gen |-> 0]

-----------------------------------------------------------------------------
(* Helpers on sequences *)

RECURSIVE SelectSeqBy(_, _)
SelectSeqBy(s, keep) ==
    IF s = <<>> THEN <<>>
    ELSE IF Head(s) \in keep THEN <<Head(s)>> \o SelectSeqBy(Tail(s), keep)
         ELSE SelectSeqBy(Tail(s), keep)

\* clips.findIndex(c => c.id === id); 0 when not found
FindIndex(cs, id) ==
    IF \E i \in 1..Len(cs) : cs[i].id = id
    THEN CHOOSE i \in 1..Len(cs) : cs[i].id = id /\ \A j \in 1..(i-1) : cs[j].id # id
    ELSE 0

\* splice(index, 1, ...items)
Splice(cs, index, items) ==
    SubSeq(cs, 1, index - 1) \o items \o SubSeq(cs, index + 1, Len(cs))

HasAudio(c) == c.audioStartTime # UNDEFINED /\ c.audioEndTime # UNDEFINED

\* a truthy improvedTranscript (undefined and "" are both falsy)
HasScript(c) == c.improvedTranscript # <<>>

-----------------------------------------------------------------------------
(* Anchor-based slicing: handleGenerateAllAudio, step 4 and step 5 *)

\* the delimiter test of the scan loop at 1-based position i
IsDelimiterAt(al, i) ==
    /\ al.characters[i] = "."
    /\ al.characters[i + 1] = "."
    /\ al.characters[i + 2] = "."

NextClipStart_EndTime(al, delimiterEndIndex) == al.endTimes[delimiterEndIndex]

\* the start of the clip after a delimiter ending at (1-based) delimiterEndIndex:
\* the start of the next character, or the delimiter's own end when it is last
NextClipStart(al, delimiterEndIndex) ==
    IF delimiterEndIndex + 1 <= Len(al.startTimes)
    THEN al.startTimes[delimiterEndIndex + 1]
    ELSE al.endTimes[delimiterEndIndex]

RECURSIVE ScanDelimiters(_, _, _, _)
\* the for-loop over alignChars from position i (1-based), then the final push
ScanDelimiters(al, i, currentClipStart, clipBoundaries) ==
    LET n == Len(al.characters) IN
    IF i > n - 2
    THEN Append(clipBoundaries,
                [start |-> currentClipStart, end |-> al.endTimes[Len(al.endTimes)]])
    ELSE IF IsDelimiterAt(al, i)
         THEN LET clipEnd == al.startTimes[i]
                  nextStart == NextClipStart(al, i + 2)
              IN  ScanDelimiters(al, i + 3, nextStart,
                                 Append(clipBoundaries,
                                        [start |-> currentClipStart, end |-> clipEnd]))
         ELSE ScanDelimiters(al, i + 1, currentClipStart, clipBoundaries)

ClipBoundaries(al) == ScanDelimiters(al, 1, 0, <<>>)

\* "SMART PAUSE INCLUSION": the end of boundary idx after pause absorption
ExtendedEnd(clipBoundaries, idx) ==
    IF idx < Len(clipBoundaries)
    THEN clipBoundaries[idx + 1].start
    ELSE clipBoundaries[idx].end + PAD_LAST

\* "Calculate Rate"
SliceRate(audioDur, videoDur) ==
    IF audioDur > MIN_AUDIO_DUR THEN (videoDur * RATE_ONE) \div audioDur ELSE RATE_ONE

\* tasks.forEach((clip, idx) => ...): one update per task that has a boundary
ClipUpdates(tasks, clipBoundaries) ==
    LET m == IF Len(tasks) < Len(clipBoundaries) THEN Len(tasks) ELSE Len(clipBoundaries)
    IN  [idx \in 1..m |->
            LET extendedEnd == ExtendedEnd(clipBoundaries, idx)
                audioDur == extendedEnd - clipBoundaries[idx].start
                videoDur == tasks[idx].endTime - tasks[idx].startTime
            IN  [id |-> tasks[idx].id,
                 start |-> clipBoundaries[idx].start,
                 end |-> extendedEnd,
                 rate |-> SliceRate(audioDur, videoDur)]]

\* setClips(prev => prev.map(c => update found by id ? {...c, audio fields} : c))
ApplyClipUpdates(prev, clipUpdates) ==
    [i \in 1..Len(prev) |->
        IF \E u \in 1..Len(clipUpdates) : clipUpdates[u].id = prev[i].id
        THEN LET u == CHOOSE u \in 1..Len(clipUpdates) :
                          /\ clipUpdates[u].id = prev[i].id
                          /\ \A v \in 1..(u - 1) : clipUpdates[v].id # prev[i].id
             IN  [prev[i] EXCEPT !.audioStartTime = clipUpdates[u].start,
                                 !.audioEndTime = clipUpdates[u].end,
                                 !.videoRate = clipUpdates[u].rate]
        ELSE prev[i]]

\* const tasks = clips.filter(c => c.improvedTranscript)
TasksOf(cs) == SelectSeqBy(cs, {c \in {cs[i] : i \in 1..Len(cs)} : HasScript(c)})

-----------------------------------------------------------------------------
(* Inputs from the external collaborators *)

\* an alignment whose characters are spoken back to back, 0.2 s each
AlignmentOf(chars) ==
    [characters |-> chars,
     startTimes |-> [i \in 1..Len(chars) |-> (i - 1) * 20],
     endTimes |-> [i \in 1..Len(chars) |-> i * 20]]

\* an alignment the service did not build consistently: the start times of the
\* delimiter's characters run backwards
BrokenAlignment ==
    [characters |-> <<"A", ".", ".", ".", "B">>,
     startTimes |-> <<0, 60, 40, 20, 80>>,
     endTimes |-> <<20, 40, 60, 80, 100>>]

\* responses the synthesis service may return: no or one delimiter survives, or
\* the arrays do not fit each other (the service's data is passed on unchecked)
AlignmentInputs ==
    { AlignmentOf(<<"A">>),
      AlignmentOf(<<"A", ".", ".", ".", "B">>),
      BrokenAlignment }

\* what the call of generateSpeechWithTimestamps has produced so far
NoResult == [kind |-> "none"]
Rejected == [kind |-> "rejected"]
NoAlignment == [kind |-> "noAlignment"]
Returned(al) == [kind |-> "alignment", alignment |-> al]

\* results of generateVideoTimeline: audio events and redundancy events
AnalysisResults ==
    { [audio |-> << [seconds |-> 0, duration |-> 100],
                    [seconds |-> 100, duration |-> 300] >>,
       redundancy |-> { [seconds |-> 200, duration |-> 100] }] }

\* texts the user may type into the transcript editor
EditTexts == { <<>>, <<"A">> }

\* timestamps (MM:SS, whole seconds) a chat message may link to
JumpTimes == { 200 }

\* durations the decoded master audio of an alignment may have: it ends with
\* the last character, or carries trailing silence after it
AudioDurations(al) ==
    { al.endTimes[Len(al.endTimes)], al.endTimes[Len(al.endTimes)] + 60 }

-----------------------------------------------------------------------------
(* Effects React re-runs after a handler *)

\* The media setup of the sequencer effect (run when masterAudioUrl changed) followed
\* by the Play Control Effect (run when isPlaying or masterAudioUrl changed), for the
\* values the handler has set: isPlaying, masterAudioUrl, clips, the duration of the
\* audio behind a new url, and the paused flag the handler left on the video
ReactEffects(playing, url, cs, duration, vPaused) ==
    LET setup == hasVideo /\ Len(cs) > 0 /\ url # masterAudioUrl
        reload == setup /\ url # NoUrl            \* aud.src = url; aud.load()
        fallback == setup /\ url = NoUrl          \* aud.pause(); vid.playbackRate = 1.0
        aPaused == IF setup THEN TRUE ELSE audPaused
        control == playing # isPlaying \/ url # masterAudioUrl
        audIsMaster == url # NoUrl
        \* play() on an element that has ended playback seeks to the start
        restart == /\ control /\ playing /\ audIsMaster /\ aPaused
                   /\ ~reload /\ audTime = audDuration
    IN  /\ audDuration' = IF reload THEN duration ELSE audDuration
        /\ audStalled' = IF reload THEN FALSE ELSE audStalled
        /\ audTime' = IF reload \/ restart THEN 0 ELSE audTime
        /\ audTickPending' = (audTickPending \/ restart)
        /\ vidRate' = IF fallback THEN RATE_ONE ELSE vidRate
        /\ audPaused' = IF control /\ audIsMaster THEN ~playing ELSE aPaused
        /\ audEvents' = IF control /\ audIsMaster /\ playing /\ aPaused
                        THEN IF audStalled /\ ~reload
                             THEN audEvents \o <<"play", "waiting">>
                             ELSE Append(audEvents, "play")
                        ELSE IF control /\ audIsMaster /\ ~playing /\ ~aPaused
                        THEN Append(audEvents, "pause")
                        ELSE audEvents
        /\ vidPaused' = IF ~control THEN vPaused
                        ELSE IF ~audIsMaster THEN ~playing
                        ELSE IF playing THEN vPaused ELSE TRUE

PausesVideo_PauseOnly(event) == event = "pause"

\* the events bound to onPause (vid.pause()); 'play' and 'playing' are bound to
\* onPlay (vid.play())
PausesVideo(event) == event \in {"pause", "waiting"}

\* the onPlay / onPause listeners of the audio element ('play', 'playing', 'pause',
\* 'waiting'), bound in master-audio mode only
OnAudioEvent ==
    /\ audEvents # <<>>
    /\ audEvents' = Tail(audEvents)
    /\ vidPaused' = IF masterAudioUrl = NoUrl THEN vidPaused
                    ELSE PausesVideo(Head(audEvents))
    /\ UNCHANGED <<editorVars, vidRate, audTime, audPaused, audDuration, audStalled, audTickPending,
                   isTransitioning, timers, playOps, exportVars, timelineVars, cacheVars,
                   waveformCache, zoomVars, geminiVars>>

-----------------------------------------------------------------------------
(* Editor: initial state and handlers of App *)

EditorInit ==
    /\ clips = <<>>
    /\ masterAudioUrl = NoUrl
    /\ activeClipId = 0
    /\ isPlaying = FALSE
    /\ currentSequenceTime = 0
    /\ editingClipId = 0
    /\ hasVideo = FALSE
    /\ hasAnalyzed = FALSE
    /\ isDeepScanning = FALSE
    /\ isPolishing = FALSE
    /\ polishIds = {}
    /\ isGeneratingAllAudio = FALSE
    /\ genPhase = "idle"
    /\ genClips = <<>>
    /\ genResult = NoResult
    /\ genCount = 0
    /\ nextId = 0
    /\ editCount = 0
    /\ vidTime = 0

\* invalidateMasterAudio: drops the master audio handle, and nothing else
InvalidateMasterAudio == masterAudioUrl' = NoUrl

\* processVideoFile, after the upload has been awaited (the import panel is
\* rendered only while there is no video)
ProcessVideoFile ==
    /\ ~hasVideo
    /\ hasVideo' = TRUE
    /\ clips' = <<>>
    /\ hasAnalyzed' = FALSE
    /\ currentSequenceTime' = 0
    /\ InvalidateMasterAudio
    /\ vidTime' = 0
    /\ UNCHANGED <<seqVars, exportVars, editCount, isPolishing, polishIds, activeClipId, isPlaying, editingClipId, isDeepScanning,
                   isGeneratingAllAudio, genPhase, genClips, genResult, genCount, nextId, timelineVars, cacheVars,
                   waveformCache, zoomVars, geminiVars>>

\* startDeepAnalysis up to its await
StartDeepAnalysis ==
    /\ hasVideo /\ ~hasAnalyzed /\ ~isDeepScanning
    /\ isDeepScanning' = TRUE
    /\ InvalidateMasterAudio
    /\ UNCHANGED <<seqVars, exportVars, editCount, isPolishing, polishIds, clips, activeClipId, isPlaying, currentSequenceTime, editingClipId,
                   hasVideo, hasAnalyzed, isGeneratingAllAudio, genPhase, genClips, genResult,
                   genCount, nextId, vidTime, timelineVars, cacheVars,
                   waveformCache, zoomVars, geminiVars>>

\* the Clip built from audio event e, with the id it is given
GeneratedClip(e, id, redundancyEvents) ==
    LET clipStart == e.seconds
        duration == IF e.duration # 0 THEN e.duration ELSE 1000
        clipEnd == e.seconds + duration
    IN  [id |-> id,
         startTime |-> clipStart,
         endTime |-> clipEnd,
         improvedTranscript |-> <<>>,
         audioStartTime |-> UNDEFINED,
         audioEndTime |-> UNDEFINED,
         videoRate |-> UNDEFINED,
         redundancies |-> {r \in redundancyEvents :
                              r.seconds >= clipStart /\ r.seconds < clipEnd}]

\* startDeepAnalysis after generateVideoTimeline has resolved
AnalysisDone ==
    /\ isDeepScanning
    /\ \E res \in AnalysisResults :
         /\ nextId + Len(res.audio) <= MaxIds
         /\ LET generatedClips ==
                    [i \in 1..Len(res.audio) |->
                        GeneratedClip(res.audio[i], nextId + i, res.redundancy)]
            IN  /\ clips' = generatedClips
                /\ activeClipId' = IF Len(generatedClips) > 0
                                   THEN generatedClips[1].id ELSE activeClipId
         /\ nextId' = nextId + Len(res.audio)
    /\ hasAnalyzed' = TRUE
    /\ isDeepScanning' = FALSE
    /\ UNCHANGED <<seqVars, exportVars, editCount, isPolishing, polishIds, masterAudioUrl, isPlaying, currentSequenceTime, editingClipId,
                   hasVideo, isGeneratingAllAudio, genPhase, genClips, genResult, genCount, vidTime, timelineVars, cacheVars,
                   waveformCache, zoomVars, geminiVars>>

\* startDeepAnalysis when generateVideoTimeline rejects
AnalysisFail ==
    /\ isDeepScanning
    /\ isDeepScanning' = FALSE
    /\ UNCHANGED <<seqVars, exportVars, editCount, isPolishing, polishIds, clips, masterAudioUrl, activeClipId, isPlaying, currentSequenceTime,
                   editingClipId, hasVideo, hasAnalyzed, isGeneratingAllAudio, genPhase,
                   genClips, genResult, genCount, nextId, vidTime, timelineVars, cacheVars,
                   waveformCache, zoomVars, geminiVars>>

\* the jumpTime listener, for a timestamp inside some clip
HandleJump ==
    /\ hasVideo
    /\ \E time \in JumpTimes :
         /\ \E i \in 1..Len(clips) : time >= clips[i].startTime /\ time <= clips[i].endTime
         /\ LET i == CHOOSE i \in 1..Len(clips) :
                        /\ time >= clips[i].startTime /\ time <= clips[i].endTime
                        /\ \A j \in 1..(i - 1) :
                              ~(time >= clips[j].startTime /\ time <= clips[j].endTime)
            IN  activeClipId' = clips[i].id
         /\ vidTime' = time
    /\ isPlaying' = TRUE
    /\ UNCHANGED <<isTransitioning, timers, playOps, exportVars, editCount, isPolishing, polishIds, clips, masterAudioUrl, currentSequenceTime, editingClipId, hasVideo,
                   hasAnalyzed, isDeepScanning, isGeneratingAllAudio, genPhase, genClips, genResult,
                   genCount, nextId, timelineVars, cacheVars,
                   waveformCache, zoomVars, geminiVars>>
    /\ ReactEffects(isPlaying', masterAudioUrl', clips', audDuration, FALSE)

\* handleStartEdit (the pencil button is rendered on clips with a polished script)
HandleStartEdit ==
    /\ \E i \in 1..Len(clips) : HasScript(clips[i]) /\ editingClipId' = clips[i].id
    /\ UNCHANGED <<seqVars, exportVars, editCount, isPolishing, polishIds, clips, masterAudioUrl, activeClipId, isPlaying, currentSequenceTime,
                   hasVideo, hasAnalyzed, isDeepScanning, isGeneratingAllAudio, genPhase,
                   genClips, genResult, genCount, nextId, vidTime, timelineVars, cacheVars,
                   waveformCache, zoomVars, geminiVars>>

\* handleSaveEdit with the text typed into the editor (the save button is rendered
\* inside the clip being edited)
HandleSaveEdit ==
    /\ editCount < MaxEdits
    /\ editCount' = editCount + 1
    /\ editingClipId # 0
    /\ FindIndex(clips, editingClipId) # 0
    /\ \E editingText \in EditTexts :
         clips' = [i \in 1..Len(clips) |->
                     IF clips[i].id = editingClipId
                     THEN [clips[i] EXCEPT !.improvedTranscript = editingText]
                     ELSE clips[i]]
    /\ InvalidateMasterAudio
    /\ editingClipId' = 0
    /\ UNCHANGED <<isTransitioning, timers, playOps, exportVars, isPolishing, polishIds, activeClipId, isPlaying, currentSequenceTime, hasVideo, hasAnalyzed,
                   isDeepScanning, isGeneratingAllAudio, genPhase, genClips, genResult, genCount,
                   nextId, vidTime, timelineVars, cacheVars,
                   waveformCache, zoomVars, geminiVars>>
    /\ ReactEffects(isPlaying', masterAudioUrl', clips', audDuration, vidPaused)

\* moveClip(index, direction), when the target index exists
MoveClip ==
    /\ editCount < MaxEdits
    /\ editCount' = editCount + 1
    /\ \E index \in 1..Len(clips), d \in {-1, 1} :
         LET targetIndex == index + d IN
         /\ targetIndex >= 1 /\ targetIndex <= Len(clips)
         /\ clips' = [clips EXCEPT ![index] = clips[targetIndex],
                                   ![targetIndex] = clips[index]]
    /\ InvalidateMasterAudio
    /\ UNCHANGED <<isTransitioning, timers, playOps, exportVars, isPolishing, polishIds, activeClipId, isPlaying, currentSequenceTime, editingClipId, hasVideo,
                   hasAnalyzed, isDeepScanning, isGeneratingAllAudio, genPhase, genClips, genResult,
                   genCount, nextId, vidTime, timelineVars, cacheVars,
                   waveformCache, zoomVars, geminiVars>>
    /\ ReactEffects(isPlaying', masterAudioUrl', clips', audDuration, vidPaused)

\* deleteClip(id)
DeleteClip ==
    /\ editCount < MaxEdits
    /\ editCount' = editCount + 1
    /\ \E k \in 1..Len(clips) :
         LET id == clips[k].id
             currentIndex == FindIndex(clips, id)
             newClips == SelectSeqBy(clips, {c \in {clips[i] : i \in 1..Len(clips)} : c.id # id})
             nextClip == IF currentIndex <= Len(newClips) THEN newClips[currentIndex]
                         ELSE IF currentIndex - 1 >= 1 THEN newClips[currentIndex - 1]
                         ELSE newClips[1]
         IN  /\ IF activeClipId = id
                THEN IF Len(newClips) > 0
                     THEN /\ activeClipId' = nextClip.id
                          /\ vidTime' = nextClip.startTime
                          /\ isPlaying' = isPlaying
                     ELSE /\ activeClipId' = 0
                          /\ isPlaying' = FALSE
                          /\ vidTime' = vidTime
                ELSE UNCHANGED <<activeClipId, vidTime, isPlaying>>
             /\ clips' = newClips
    /\ InvalidateMasterAudio
    /\ UNCHANGED <<isTransitioning, timers, playOps, exportVars, isPolishing, polishIds, currentSequenceTime, editingClipId, hasVideo, hasAnalyzed,
                   isDeepScanning, isGeneratingAllAudio, genPhase, genClips, genResult, genCount,
                   nextId, timelineVars, cacheVars,
                   waveformCache, zoomVars, geminiVars>>
    /\ ReactEffects(isPlaying', masterAudioUrl', clips', audDuration, vidPaused)

Max2(a, b) == IF a > b THEN a ELSE b
Min2(a, b) == IF a < b THEN a ELSE b

\* fixRedundancy(clipId, event) for an issue listed on the clip
FixRedundancy ==
    /\ editCount < MaxEdits
    /\ editCount' = editCount + 1
    /\ nextId + 2 <= MaxIds
    /\ \E k \in 1..Len(clips) : \E event \in clips[k].redundancies :
         LET clip == clips[k]
             clipId == clip.id
             cutStart == IF event.duration > 0
                         THEN Max2(clip.startTime, event.seconds)
                         ELSE Max2(clip.startTime, event.seconds - 100)
             cutEnd == IF event.duration > 0
                       THEN Min2(clip.endTime, event.seconds + event.duration)
                       ELSE Min2(clip.endTime, event.seconds + 200)
             clipBefore == [clip EXCEPT !.id = nextId + 1, !.endTime = cutStart,
                                        !.redundancies = {}]
             clipAfter == [clip EXCEPT !.id = nextId + 2, !.startTime = cutEnd,
                                       !.redundancies = {}]
             newSegments ==
                 (IF clipBefore.endTime - clipBefore.startTime > MIN_PART
                  THEN <<clipBefore>> ELSE <<>>)
                 \o (IF clipAfter.endTime - clipAfter.startTime > MIN_PART
                     THEN <<clipAfter>> ELSE <<>>)
             clipIndex == FindIndex(clips, clipId)
         IN  /\ cutStart < cutEnd
             /\ clips' = Splice(clips, clipIndex, newSegments)
             /\ activeClipId' = IF activeClipId = clipId
                                THEN (IF Len(newSegments) = 0 THEN 0 ELSE newSegments[1].id)
                                ELSE activeClipId
    /\ nextId' = nextId + 2
    /\ InvalidateMasterAudio
    /\ UNCHANGED <<isTransitioning, timers, playOps, exportVars, isPolishing, polishIds, isPlaying, currentSequenceTime, editingClipId, hasVideo, hasAnalyzed,
                   isDeepScanning, isGeneratingAllAudio, genPhase, genClips, genResult, genCount,
                   vidTime, timelineVars, cacheVars,
                   waveformCache, zoomVars, geminiVars>>
    /\ ReactEffects(isPlaying', masterAudioUrl', clips', audDuration, vidPaused)

\* splitClipAtPlayhead, when the playhead is inside the active clip
SplitClipAtPlayhead ==
    /\ editCount < MaxEdits
    /\ editCount' = editCount + 1
    /\ hasVideo /\ activeClipId # 0
    /\ nextId + 2 <= MaxIds
    /\ LET currentTime == vidTime
           clipIndex == FindIndex(clips, activeClipId)
       IN  /\ clipIndex # 0
           /\ LET clip == clips[clipIndex]
                  clipA == [clip EXCEPT !.id = nextId + 1, !.endTime = currentTime]
                  clipB == [clip EXCEPT !.id = nextId + 2, !.startTime = currentTime,
                                        !.redundancies = {}]
              IN  /\ currentTime > clip.startTime + MIN_PART
                  /\ currentTime < clip.endTime - MIN_PART
                  /\ clips' = Splice(clips, clipIndex, <<clipA, clipB>>)
                  /\ activeClipId' = clipB.id
    /\ nextId' = nextId + 2
    /\ InvalidateMasterAudio
    /\ UNCHANGED <<isTransitioning, timers, playOps, exportVars, isPolishing, polishIds, isPlaying, currentSequenceTime, editingClipId, hasVideo, hasAnalyzed,
                   isDeepScanning, isGeneratingAllAudio, genPhase, genClips, genResult, genCount,
                   vidTime, timelineVars, cacheVars,
                   waveformCache, zoomVars, geminiVars>>
    /\ ReactEffects(isPlaying', masterAudioUrl', clips', audDuration, vidPaused)

\* the "Generate Audio" banner: hasPolishedScripts && !audioGenerated
ShowGenerateAllBanner ==
    /\ \E i \in 1..Len(clips) : HasScript(clips[i])
    /\ masterAudioUrl = NoUrl

\* handleGenerateAllAudio up to the await of generateSpeechWithTimestamps
GenerateStart ==
    /\ hasAnalyzed /\ Len(clips) > 0
    /\ ShowGenerateAllBanner
    /\ ~isGeneratingAllAudio
    /\ genCount < MaxGen
    /\ Len(TasksOf(clips)) > 0
    /\ isGeneratingAllAudio' = TRUE
    /\ genPhase' = "synth"
    /\ genClips' = clips
    /\ genResult' = NoResult
    /\ UNCHANGED <<seqVars, exportVars, editCount, isPolishing, polishIds, clips, masterAudioUrl, activeClipId, isPlaying, currentSequenceTime,
                   editingClipId, hasVideo, hasAnalyzed, isDeepScanning, genCount, nextId,
                   vidTime, timelineVars, cacheVars,
                   waveformCache, zoomVars, geminiVars>>

\* a segment without its audio window and rate
WithoutAudio(c) ==
    [c EXCEPT !.audioStartTime = UNDEFINED, !.audioEndTime = UNDEFINED,
              !.videoRate = UNDEFINED]

GenerateCatch_Reset ==
    /\ clips' = [i \in 1..Len(clips) |-> WithoutAudio(clips[i])]
    /\ UNCHANGED masterAudioUrl

\* the catch block of handleGenerateAllAudio (console.error, alert) and its finally:
\* neither calls setClips or setMasterAudioUrl
GenerateCatch ==
    UNCHANGED <<clips, masterAudioUrl>>

\* generateSpeechWithTimestamps rejects: catch, finally
GenerateFail ==
    /\ genPhase = "synth"
    /\ genPhase' = "idle"
    /\ genClips' = <<>>
    /\ genResult' = Rejected
    /\ isGeneratingAllAudio' = FALSE
    /\ GenerateCatch
    /\ UNCHANGED <<seqVars, exportVars, editCount, isPolishing, polishIds, activeClipId, isPlaying, currentSequenceTime,
                   editingClipId, hasVideo, hasAnalyzed, isDeepScanning, genCount, nextId, vidTime, timelineVars, cacheVars,
                   waveformCache, zoomVars, geminiVars>>

\* the response carries no alignment: reading alignment.characters throws before
\* any boundary is computed: catch, finally
GenerateSliceThrows ==
    /\ genPhase = "synth"
    /\ genPhase' = "idle"
    /\ genClips' = <<>>
    /\ genResult' = NoAlignment
    /\ isGeneratingAllAudio' = FALSE
    /\ GenerateCatch
    /\ UNCHANGED <<seqVars, exportVars, editCount, isPolishing, polishIds, activeClipId, isPlaying, currentSequenceTime,
                   editingClipId, hasVideo, hasAnalyzed, isDeepScanning, genCount, nextId, vidTime, timelineVars, cacheVars,
                   waveformCache, zoomVars, geminiVars>>

\* whether a result computed for the captured list may be applied to the current one
\* (the handler applies it always: it keeps no version of the list)
ResultIsApplied(captured, current) == TRUE

\* handleGenerateAllAudio from the synthesis response to the upload's await:
\* slicing, setClips, setMasterAudioUrl(blob url), for the alignment received
SliceResponse(alignment) ==
    /\ LET tasks == TasksOf(genClips)
           clipBoundaries == ClipBoundaries(alignment)
           clipUpdates == ClipUpdates(tasks, clipBoundaries)
       IN  /\ genResult' = Returned(alignment)
           /\ IF ResultIsApplied(genClips, clips)
              THEN /\ clips' = ApplyClipUpdates(clips, clipUpdates)
                   /\ masterAudioUrl' = [kind |-> "blob", gen |-> genCount + 1]
                   /\ \E duration \in AudioDurations(alignment) :
                         ReactEffects(isPlaying, masterAudioUrl', clips', duration,
                                      vidPaused)
              ELSE UNCHANGED <<clips, masterAudioUrl, vidPaused, vidRate, audTime,
                               audPaused, audDuration, audStalled, audTickPending, audEvents>>
    /\ genCount' = genCount + 1
    /\ genPhase' = "persist"
    /\ UNCHANGED <<isTransitioning, timers, playOps, exportVars, editCount, activeClipId, isPlaying, currentSequenceTime, editingClipId, hasVideo,
                   hasAnalyzed, isDeepScanning, isPolishing, polishIds,
                   isGeneratingAllAudio, genClips, nextId, vidTime, timelineVars, cacheVars,
                   waveformCache, zoomVars, geminiVars>>

\* the synthesis resolves with one of the responses of AlignmentInputs
GenerateSlice ==
    /\ genPhase = "synth"
    /\ \E alignment \in AlignmentInputs : SliceResponse(alignment)

\* the upload of the master audio resolves: setMasterAudioUrl(publicUrl), finally
GeneratePersisted ==
    /\ genPhase = "persist"
    /\ masterAudioUrl' = [kind |-> "public", gen |-> genCount]
    /\ genPhase' = "idle"
    /\ genClips' = <<>>
    /\ isGeneratingAllAudio' = FALSE
    /\ UNCHANGED <<genResult, isTransitioning, timers, playOps, exportVars, editCount, isPolishing, polishIds, clips, activeClipId, isPlaying, currentSequenceTime, editingClipId,
                   hasVideo, hasAnalyzed, isDeepScanning, genCount, nextId,
                   vidTime, timelineVars, cacheVars,
                   waveformCache, zoomVars, geminiVars>>
    /\ ReactEffects(isPlaying', masterAudioUrl', clips', audDuration, vidPaused)

\* the upload of the master audio rejects: inner catch, finally
GeneratePersistFail ==
    /\ genPhase = "persist"
    /\ genPhase' = "idle"
    /\ genClips' = <<>>
    /\ isGeneratingAllAudio' = FALSE
    /\ UNCHANGED <<genResult, seqVars, exportVars, editCount, isPolishing, polishIds, clips, masterAudioUrl, activeClipId, isPlaying, currentSequenceTime,
                   editingClipId, hasVideo, hasAnalyzed, isDeepScanning, genCount, nextId, vidTime, timelineVars, cacheVars,
                   waveformCache, zoomVars, geminiVars>>

\* handlePolishScripts up to the await of polishClipTranscriptsWithClaude
HandlePolishScripts ==
    /\ hasAnalyzed /\ Len(clips) > 0
    /\ ~isPolishing
    /\ isPolishing' = TRUE
    /\ polishIds' = {clips[i].id : i \in 1..Len(clips)}
    /\ UNCHANGED <<seqVars, exportVars, editCount, clips, masterAudioUrl, activeClipId, isPlaying, currentSequenceTime,
                   editingClipId, hasVideo, hasAnalyzed, isDeepScanning,
                   isGeneratingAllAudio, genPhase, genClips, genResult, genCount, nextId, vidTime, timelineVars, cacheVars,
                   waveformCache, zoomVars, geminiVars>>

\* handlePolishScripts after the await: improvements for the clips that were sent,
\* or none (polishClipTranscriptsWithClaude returns [] when the request fails)
\* handlePolishScripts from the response on, for the ids the response improves
\* (none when the request failed: polishClipTranscriptsWithClaude catches every
\* error and returns [])
PolishResponse(improvedIds) ==
    /\ clips' = [i \in 1..Len(clips) |->
                     IF clips[i].id \in improvedIds
                     THEN [clips[i] EXCEPT !.improvedTranscript = <<"A">>]
                     ELSE clips[i]]
    /\ InvalidateMasterAudio

PolishDone ==
    /\ isPolishing
    /\ \E improvedIds \in {polishIds, {}} : PolishResponse(improvedIds)
    /\ isPolishing' = FALSE
    /\ polishIds' = {}
    /\ UNCHANGED <<isTransitioning, timers, playOps, exportVars, editCount, activeClipId, isPlaying, currentSequenceTime, editingClipId, hasVideo,
                   hasAnalyzed, isDeepScanning, isGeneratingAllAudio, genPhase, genClips, genResult,
                   genCount, nextId, vidTime, timelineVars, cacheVars,
                   waveformCache, zoomVars, geminiVars>>
    /\ ReactEffects(isPlaying', masterAudioUrl', clips', audDuration, vidPaused)

\* the media elements before any playback: both paused at 0, no audio loaded
MediaInit ==
    /\ vidPaused = TRUE
    /\ vidRate = RATE_ONE
    /\ audTime = 0
    /\ audPaused = TRUE
    /\ audDuration = 0
    /\ audTickPending = FALSE
    /\ audEvents = <<>>
    /\ audStalled = FALSE
    /\ isTransitioning = FALSE
    /\ timers = {}
    /\ playOps = 0

\* no renderVideo call has been made
ExportIdle ==
    /\ isExporting = FALSE
    /\ exPhase = "none"
    /\ video = "null"
    /\ canvas = "null"
    /\ audioElement = "null"
    /\ audioCtx = "null"
    /\ recorder = "none"
    /\ stopEventPending = FALSE
    /\ isFinished = FALSE
    /\ animationFrameId = 0
    /\ framePending = FALSE
    /\ renderLoopPc = "none"
    /\ totalDuration = 0
    /\ exTime = 0
    /\ exAudDuration = 0
    /\ exAudPaused = TRUE
    /\ endedEventPending = FALSE
    /\ exVidPaused = TRUE
    /\ exVidTime = 0
    /\ exVidRate = RATE_ONE
    /\ exPromise = "none"
    /\ exSteps = <<>>
    /\ finishCalls = 0
    /\ finishRuns = 0
    /\ stopCalls = 0
    /\ resolveCalls = 0

\* no Timeline is mounted
TimelineIdle ==
    /\ tlClips = <<>>
    /\ tlRawTime = 0
    /\ tlSeqTime = 0
    /\ tlClipInfo = 0

\* const thumbnailCache = new ThumbnailCache()
CacheIdle ==
    /\ cache = <<>>
    /\ now = 0
    /\ cacheOps = 0

\* const waveformCache = new Map()
WaveformIdle == waveformCache = {}

\* the zoom store as created: zoomScale: ZOOM_CONSTRAINTS.default
ZoomIdle ==
    /\ zoomScale = ZOOM_DEFAULT
    /\ lastZoomTime = 0

\* no generateWithFallback call was made
GeminiIdle ==
    /\ gwfPc = "idle"
    /\ gwfAttempts = <<>>
    /\ gwfWaited = 0
    /\ gwfCalls = 0
    /\ uploadsPending = 0

Init ==
    /\ EditorInit /\ MediaInit /\ ExportIdle /\ TimelineIdle /\ CacheIdle
    /\ WaveformIdle /\ ZoomIdle /\ GeminiIdle

Next ==
    \/ ProcessVideoFile
    \/ StartDeepAnalysis
    \/ AnalysisDone
    \/ AnalysisFail
    \/ HandleJump
    \/ HandleStartEdit
    \/ HandleSaveEdit
    \/ MoveClip
    \/ DeleteClip
    \/ FixRedundancy
    \/ SplitClipAtPlayhead
    \/ HandlePolishScripts
    \/ PolishDone
    \/ GenerateStart
    \/ GenerateFail
    \/ GenerateSliceThrows
    \/ GenerateSlice
    \/ GeneratePersisted
    \/ GeneratePersistFail
    \/ OnAudioEvent

Spec == Init /\ [][Next]_vars

-----------------------------------------------------------------------------
(* Live sequencer *)

\* getClipDuration
GetClipDuration(clip) ==
    IF HasAudio(clip) THEN clip.audioEndTime - clip.audioStartTime
    ELSE clip.endTime - clip.startTime

RECURSIVE AccumulatedDuration(_, _)
\* sum of getClipDuration over the first n clips
AccumulatedDuration(cs, n) ==
    IF n = 0 THEN 0 ELSE AccumulatedDuration(cs, n - 1) + GetClipDuration(cs[n])

\* totalSequenceDuration
TotalSequenceDuration(cs) == AccumulatedDuration(cs, Len(cs))

\* togglePlayback, followed by the Play Control Effect
TogglePlayback ==
    /\ playOps < MaxPlayOps
    /\ playOps' = playOps + 1
    /\ Len(clips) > 0
    /\ Len(audEvents) < MaxEvents
    /\ isPlaying' = ~isPlaying
    /\ ReactEffects(~isPlaying, masterAudioUrl, clips, audDuration, vidPaused)
    /\ UNCHANGED <<clips, masterAudioUrl, activeClipId, currentSequenceTime, editingClipId,
                   hasVideo, hasAnalyzed, isDeepScanning, isPolishing, polishIds,
                   isGeneratingAllAudio, genPhase, genClips, genResult, genCount, nextId, editCount,
                   vidTime, isTransitioning, timers, exportVars, timelineVars, cacheVars,
                   waveformCache, zoomVars, geminiVars>>

\* clips.findIndex(c => c has an audio window that contains audioTime); 0 if none
CurrentClipIndex(cs, audioTime) ==
    LET In(i) == /\ HasAudio(cs[i])
                 /\ audioTime >= cs[i].audioStartTime
                 /\ audioTime < cs[i].audioEndTime
    IN  IF \E i \in 1..Len(cs) : In(i)
        THEN CHOOSE i \in 1..Len(cs) : In(i) /\ \A j \in 1..(i - 1) : ~In(j)
        ELSE 0

\* targetVideoTime of a clip at audioTime
TargetVideoTime(clip, audioTime) ==
    LET audioDuration == clip.audioEndTime - clip.audioStartTime
        videoDuration == clip.endTime - clip.startTime
        relativeAudioTime == audioTime - clip.audioStartTime
    IN  clip.startTime + (relativeAudioTime * videoDuration) \div audioDuration

\* requiredRate of a clip on a live tick, capped and clamped
RequiredRate(clip) ==
    LET audioDuration == clip.audioEndTime - clip.audioStartTime
        videoDuration == clip.endTime - clip.startTime
        raw == (videoDuration * ELEVEN_LABS_SPEED) \div audioDuration
        capped == IF raw > MAX_VIDEO_RATE THEN MAX_VIDEO_RATE ELSE raw
    IN  Max2(MIN_VIDEO_RATE, capped)

AbsDiff(a, b) == IF a > b THEN a - b ELSE b - a

DriftSeek_Wide(current, targetVideoTime) ==
    IF AbsDiff(current, targetVideoTime) > DRIFT_TOLERANCE + 5
    THEN targetVideoTime ELSE current

\* if (Math.abs(vid.currentTime - targetVideoTime) > 0.2) vid.currentTime = targetVideoTime
DriftSeek(current, targetVideoTime) ==
    IF AbsDiff(current, targetVideoTime) > DRIFT_TOLERANCE
    THEN targetVideoTime ELSE current

DriftCorrected_Always(clip, requiredRate, targetVideoTime) ==
    DriftSeek(vidTime, targetVideoTime)

\* "Drift Correction": the video position after the tick
DriftCorrected(clip, requiredRate, targetVideoTime) ==
    IF requiredRate < MAX_VIDEO_RATE
    THEN DriftSeek(vidTime, targetVideoTime)
    ELSE IF vidTime < clip.startTime THEN clip.startTime ELSE vidTime

\* whether the manual-seek lock makes onAudioTimeUpdate return at once
TickSuppressed == isTransitioning

\* onAudioTimeUpdate, for a queued timeupdate event of the audio element
OnAudioTimeUpdate ==
    /\ audTickPending
    /\ audTickPending' = FALSE
    /\ LET audioTime == audTime
           currentClipIndex == CurrentClipIndex(clips, audioTime)
       IN  IF masterAudioUrl = NoUrl \/ TickSuppressed
           THEN UNCHANGED <<activeClipId, vidRate, vidTime, vidPaused, currentSequenceTime,
                            isPlaying, audPaused, audEvents>>
           ELSE IF currentClipIndex # 0
           THEN LET currentClip == clips[currentClipIndex]
                    requiredRate == RequiredRate(currentClip)
                    targetVideoTime == TargetVideoTime(currentClip, audioTime)
                IN  /\ activeClipId' = currentClip.id
                    /\ vidRate' = requiredRate
                    /\ vidTime' = DriftCorrected(currentClip, requiredRate, targetVideoTime)
                    /\ vidPaused' = IF vidPaused /\ ~audPaused THEN FALSE ELSE vidPaused
                    /\ currentSequenceTime' =
                          AccumulatedDuration(clips, currentClipIndex - 1)
                          + (audioTime - currentClip.audioStartTime)
                    /\ UNCHANGED <<isPlaying, audPaused, audEvents>>
           ELSE IF audioTime >= audDuration - END_TOLERANCE
           THEN \* "End of Timeline"
                /\ isPlaying' = FALSE
                /\ audPaused' = TRUE
                /\ audEvents' = IF ~audPaused THEN Append(audEvents, "pause") ELSE audEvents
                /\ vidPaused' = TRUE
                /\ currentSequenceTime' = 0
                /\ IF Len(clips) > 0
                   THEN activeClipId' = clips[1].id /\ vidTime' = clips[1].startTime
                   ELSE UNCHANGED <<activeClipId, vidTime>>
                /\ UNCHANGED vidRate
           ELSE UNCHANGED <<activeClipId, vidRate, vidTime, vidPaused, currentSequenceTime,
                            isPlaying, audPaused, audEvents>>
    /\ UNCHANGED <<clips, masterAudioUrl, editingClipId, hasVideo, hasAnalyzed,
                   isDeepScanning, isPolishing, polishIds, isGeneratingAllAudio, genPhase,
                   genClips, genResult, genCount, nextId, editCount, audTime, audDuration, audStalled,
                   isTransitioning, timers, playOps, exportVars, timelineVars, cacheVars,
                   waveformCache, zoomVars, geminiVars>>

\* positions on the progress bar the user may click, in percent of its width
SeekPercents == { 0, 50 }

\* the first clip, in list order, at which handleGlobalSeek's scan stops; 0 if none
SeekClipIndex(cs, targetSeqTime) ==
    LET Hit(i) == targetSeqTime <= AccumulatedDuration(cs, i)
    IN  IF \E i \in 1..Len(cs) : Hit(i)
        THEN CHOOSE i \in 1..Len(cs) : Hit(i) /\ \A j \in 1..(i - 1) : ~Hit(j)
        ELSE 0

\* getVideoTimeFromClipTime
GetVideoTimeFromClipTime(clipTime, clip) == clip.startTime + clipTime

\* handleGlobalSeek for a click at a percentage of the bar
HandleGlobalSeek ==
    /\ playOps < MaxPlayOps
    /\ playOps' = playOps + 1
    /\ Len(clips) > 0
    /\ hasVideo
    /\ Len(audEvents) < MaxEvents
    /\ isTransitioning' = TRUE
    /\ audPaused' = TRUE
    /\ audEvents' = IF ~audPaused THEN Append(audEvents, "pause") ELSE audEvents
    /\ \E percentage \in SeekPercents :
         LET targetSeqTime == (TotalSequenceDuration(clips) * percentage) \div 100
             k == SeekClipIndex(clips, targetSeqTime)
         IN  /\ currentSequenceTime' = targetSeqTime
             /\ IF k # 0
                THEN LET clip == clips[k]
                         offsetInClip == targetSeqTime - AccumulatedDuration(clips, k - 1)
                     IN  /\ activeClipId' = clip.id
                         /\ IF masterAudioUrl # NoUrl /\ clip.audioStartTime # UNDEFINED
                            THEN /\ audTime' = Min2(audDuration,
                                                    clip.audioStartTime + offsetInClip)
                                 /\ audTickPending' = TRUE
                                 /\ UNCHANGED vidTime
                            ELSE /\ vidTime' = GetVideoTimeFromClipTime(offsetInClip, clip)
                                 /\ UNCHANGED <<audTime, audTickPending>>
                ELSE UNCHANGED <<activeClipId, audTime, audTickPending, vidTime>>
    /\ timers' = timers \cup {SEEK_LOCK}
    /\ UNCHANGED <<clips, masterAudioUrl, isPlaying, editingClipId, hasVideo, hasAnalyzed,
                   isDeepScanning, isPolishing, polishIds, isGeneratingAllAudio, genPhase,
                   genClips, genResult, genCount, nextId, editCount, vidPaused, vidRate, audDuration, audStalled,
                   exportVars, timelineVars, cacheVars,
                   waveformCache, zoomVars, geminiVars>>

TimerFires_KeepsLock ==
    /\ 0 \in timers
    /\ timers' = timers \ {0}
    /\ UNCHANGED <<editorVars, vidPaused, vidRate, audTime, audPaused, audDuration, audStalled,
                   audTickPending, audEvents, isTransitioning, playOps, exportVars,
                   timelineVars, cacheVars, waveformCache, zoomVars, geminiVars>>

\* the callback of a setTimeout of handleGlobalSeek: isTransitioningRef.current = false
TimerFires ==
    /\ 0 \in timers
    /\ timers' = timers \ {0}
    /\ isTransitioning' = FALSE
    /\ UNCHANGED <<editorVars, vidPaused, vidRate, audTime, audPaused, audDuration, audStalled,
                   audTickPending, audEvents, playOps, exportVars, timelineVars, cacheVars,
                   waveformCache, zoomVars, geminiVars>>

\* 50 ms pass: timers count down, playing elements advance (the audio queues a
\* timeupdate, and pauses itself when it reaches its end)
TimePasses ==
    /\ 0 \notin timers
    /\ audEvents = <<>>
    /\ timers # {} \/ ~audPaused \/ ~vidPaused
    /\ timers' = {t - 5 : t \in timers}
    /\ IF audPaused \/ audStalled
       THEN UNCHANGED <<audTime, audPaused, audTickPending, audEvents>>
       ELSE LET t == Min2(audDuration, audTime + (5 * ELEVEN_LABS_SPEED) \div RATE_ONE)
            IN  /\ audTime' = t
                /\ audTickPending' = TRUE
                /\ audPaused' = (t = audDuration)
                /\ audEvents' = IF t = audDuration THEN <<"pause">> ELSE audEvents
    /\ IF vidPaused
       THEN UNCHANGED <<vidTime, vidPaused>>
       ELSE LET t == Min2(VideoLength, vidTime + (5 * vidRate) \div RATE_ONE)
            IN  /\ vidTime' = t
                /\ vidPaused' = (t = VideoLength)
    /\ UNCHANGED <<clips, masterAudioUrl, activeClipId, isPlaying, currentSequenceTime,
                   editingClipId, hasVideo, hasAnalyzed, isDeepScanning, isPolishing,
                   polishIds, isGeneratingAllAudio, genPhase, genClips, genResult, genCount, nextId,
                   editCount, vidRate, audDuration, audStalled, isTransitioning, playOps, exportVars, timelineVars, cacheVars,
                   waveformCache, zoomVars, geminiVars>>

\* the segment list after upload, analysis, polish of every clip and one generation
\* whose alignment kept its delimiter
GeneratedProject ==
    LET res == CHOOSE r \in AnalysisResults : TRUE
        analysed == [i \in 1..Len(res.audio) |->
                        GeneratedClip(res.audio[i], i, res.redundancy)]
        polished == [i \in 1..Len(analysed) |->
                        [analysed[i] EXCEPT !.improvedTranscript = <<"A">>]]
        alignment == AlignmentOf(<<"A", ".", ".", ".", "B">>)
    IN  [clips |-> ApplyClipUpdates(polished,
                       ClipUpdates(TasksOf(polished), ClipBoundaries(alignment))),
         result |-> Returned(alignment),
         durations |-> AudioDurations(alignment)]

\* the editor with a generated and persisted master audio, nothing playing yet
SeqInit ==
    /\ clips = GeneratedProject.clips
    /\ masterAudioUrl = [kind |-> "public", gen |-> 1]
    /\ activeClipId = clips[1].id
    /\ isPlaying = FALSE
    /\ currentSequenceTime = 0
    /\ editingClipId = 0
    /\ hasVideo = TRUE
    /\ hasAnalyzed = TRUE
    /\ isDeepScanning = FALSE
    /\ isPolishing = FALSE
    /\ polishIds = {}
    /\ isGeneratingAllAudio = FALSE
    /\ genPhase = "idle"
    /\ genClips = <<>>
    /\ genResult = GeneratedProject.result
    /\ genCount = 1
    /\ nextId = Len(clips)
    /\ editCount = 0
    /\ vidTime = 0
    /\ vidPaused = TRUE
    /\ vidRate = RATE_ONE
    /\ audTime = 0
    /\ audPaused = TRUE
    /\ audDuration \in GeneratedProject.durations
    /\ audTickPending = FALSE
    /\ audEvents = <<>>
    /\ audStalled = FALSE
    /\ isTransitioning = FALSE
    /\ timers = {}
    /\ playOps = 0
    /\ ExportIdle
    /\ WaveformIdle
    /\ ZoomIdle
    /\ GeminiIdle
    /\ TimelineIdle
    /\ CacheIdle

SeqNext ==
    \/ TogglePlayback
    \/ HandleGlobalSeek
    \/ TimerFires
    \/ TimePasses
    \/ OnAudioTimeUpdate
    \/ OnAudioEvent

SeqSpec == SeqInit /\ [][SeqNext]_vars

\* Manual seeks during master-audio playback: the generated project right after
\* the play button was pressed (TogglePlayback from SeqInit)
LockInit ==
    /\ clips = GeneratedProject.clips
    /\ masterAudioUrl = [kind |-> "public", gen |-> 1]
    /\ activeClipId = clips[1].id
    /\ isPlaying = TRUE
    /\ currentSequenceTime = 0
    /\ editingClipId = 0
    /\ hasVideo = TRUE
    /\ hasAnalyzed = TRUE
    /\ isDeepScanning = FALSE
    /\ isPolishing = FALSE
    /\ polishIds = {}
    /\ isGeneratingAllAudio = FALSE
    /\ genPhase = "idle"
    /\ genClips = <<>>
    /\ genResult = GeneratedProject.result
    /\ genCount = 1
    /\ nextId = Len(clips)
    /\ editCount = 0
    /\ vidTime = 0
    /\ vidPaused = TRUE
    /\ vidRate = RATE_ONE
    /\ audTime = 0
    /\ audPaused = FALSE
    /\ audDuration \in GeneratedProject.durations
    /\ audTickPending = FALSE
    /\ audEvents = <<"play">>
    /\ audStalled = FALSE
    /\ isTransitioning = FALSE
    /\ timers = {}
    /\ playOps = 1
    /\ ExportIdle
    /\ WaveformIdle
    /\ ZoomIdle
    /\ GeminiIdle
    /\ TimelineIdle
    /\ CacheIdle

LockNext ==
    \/ HandleGlobalSeek
    \/ TimerFires
    \/ TimePasses
    \/ OnAudioTimeUpdate
    \/ OnAudioEvent

\* the browser keeps running: time passes, due timers fire and queued media
\* events are dispatched
LockSpec ==
    /\ LockInit
    /\ [][LockNext]_vars
    /\ WF_vars(TimePasses)
    /\ WF_vars(TimerFires)
    /\ WF_vars(OnAudioEvent)
    /\ WF_vars(OnAudioTimeUpdate)

-----------------------------------------------------------------------------
(* Export: handleExport and renderVideo *)

\* the values a handler has given, so far, to the variables finishRender and the
\* render loop go on to change
Current == [rec |-> recorder, vPaused |-> exVidPaused, aPaused |-> exAudPaused,
            fPending |-> framePending, total |-> totalDuration]

\* the state of a resource after cleanup has looked at it
Released(r) == IF r = "null" THEN "null" ELSE "released"

\* cleanup, for the resources v, c, a, ctx acquired so far
Cleanup(v, c, a, ctx, vPaused, aPaused, fPending) ==
    /\ framePending' = IF animationFrameId # 0 THEN FALSE ELSE fPending
    /\ video' = Released(v)
    /\ exVidPaused' = IF v # "null" THEN TRUE ELSE vPaused
    /\ exVidTime' = IF v # "null" THEN 0 ELSE exVidTime
    /\ audioElement' = Released(a)
    /\ exAudPaused' = IF a # "null" THEN TRUE ELSE aPaused
    /\ exTime' = IF a # "null" THEN 0 ELSE exTime
    /\ canvas' = Released(c)
    /\ audioCtx' = Released(ctx)

\* totalDuration of renderVideo
ExportTotalDuration(cs) == AccumulatedDuration(cs, Len(cs))

\* finishRender without its guard
FinishAllowed_Unguarded == TRUE

\* the guard of finishRender: "if (isFinished) return"
FinishAllowed == ~isFinished

\* finishRender stopping the recorder first
FinishSteps_StopFirst(rec) ==
    (IF rec = "recording" THEN <<"stopRecorder">> ELSE <<>>)
        \o <<"cancelFrame", "pauseAuthority">>

\* the completion steps finishRender takes, in statement order
FinishSteps(rec) ==
    <<"cancelFrame", "pauseAuthority">>
        \o (IF rec = "recording" THEN <<"stopRecorder">> ELSE <<>>)

\* finishRender
FinishRender(s) ==
    /\ finishCalls' = finishCalls + 1
    /\ IF FinishAllowed
       THEN /\ isFinished' = TRUE
            /\ finishRuns' = finishRuns + 1
            /\ framePending' = IF animationFrameId # 0 THEN FALSE ELSE s.fPending
            /\ exAudPaused' = IF audioElement # "null" THEN TRUE ELSE s.aPaused
            /\ exVidPaused' = TRUE
            /\ IF s.rec = "recording"
               THEN /\ recorder' = "inactive"
                    /\ stopEventPending' = TRUE
                    /\ stopCalls' = stopCalls + 1
               ELSE /\ recorder' = s.rec
                    /\ UNCHANGED <<stopEventPending, stopCalls>>
            /\ exSteps' = exSteps \o FinishSteps(s.rec)
       ELSE /\ recorder' = s.rec
            /\ exVidPaused' = s.vPaused
            /\ exAudPaused' = s.aPaused
            /\ framePending' = s.fPending
            /\ UNCHANGED <<isFinished, finishRuns, stopEventPending, stopCalls, exSteps>>

\* audioElement.ended
AudioEnded == audioElement = "live" /\ exAudDuration > 0 /\ exTime = exAudDuration

\* the clip the render loop finds for currentTime; 0 if none
ExportClipIndex(cs, currentTime) ==
    LET In(i) == /\ currentTime >= AccumulatedDuration(cs, i - 1)
                 /\ currentTime < AccumulatedDuration(cs, i)
    IN  IF \E i \in 1..Len(cs) : In(i)
        THEN CHOOSE i \in 1..Len(cs) : In(i) /\ \A j \in 1..(i - 1) : ~In(j)
        ELSE 0

ExportRate_Unclamped(clip) ==
    LET audioTotalDur == clip.audioEndTime - clip.audioStartTime
        videoTotalDur == clip.endTime - clip.startTime
    IN  IF masterAudioUrl # NoUrl /\ clip.audioStartTime # UNDEFINED
        THEN (videoTotalDur * RATE_ONE) \div audioTotalDur
        ELSE RATE_ONE

\* requiredRate of the render loop for a clip, after the clamp to [0.1, 4.0]
ExportRate(clip) ==
    LET audioTotalDur == clip.audioEndTime - clip.audioStartTime
        videoTotalDur == clip.endTime - clip.startTime
        requiredRate == IF masterAudioUrl # NoUrl /\ clip.audioStartTime # UNDEFINED
                        THEN (videoTotalDur * RATE_ONE) \div audioTotalDur
                        ELSE RATE_ONE
    IN  Max2(EXPORT_MIN_RATE, Min2(EXPORT_MAX_RATE, requiredRate))

\* targetVideoTime of the render loop for a clip and the time inside it
ExportTargetVideoTime(clip, timeInClip) ==
    IF masterAudioUrl # NoUrl /\ clip.audioStartTime # UNDEFINED
    THEN clip.startTime
         + (timeInClip * (clip.endTime - clip.startTime))
              \div (clip.audioEndTime - clip.audioStartTime)
    ELSE clip.startTime + timeInClip

\* one invocation of renderLoop, up to its return or its await of video.play()
\* (video, canvas and ctx are assigned before renderLoop is defined and never
\* reset to null, so only isFinished can make it return at once)
RenderLoopBody(s) ==
    IF isFinished
    THEN /\ renderLoopPc' = "returned"
         /\ recorder' = s.rec
         /\ exVidPaused' = s.vPaused
         /\ exAudPaused' = s.aPaused
         /\ framePending' = s.fPending
         /\ UNCHANGED <<isFinished, finishRuns, finishCalls, stopCalls, stopEventPending,
                        exSteps, animationFrameId, exVidRate, exVidTime>>
    ELSE LET currentTime == exTime
             isAudioFinished == audioElement # "null" /\ AudioEnded
             isTimeFinished == currentTime >= s.total - EXPORT_END_TOLERANCE
             k == ExportClipIndex(clips, currentTime)
         IN  IF isAudioFinished \/ isTimeFinished
             THEN /\ FinishRender(s)
                  /\ renderLoopPc' = "returned"
                  /\ UNCHANGED <<animationFrameId, exVidRate, exVidTime>>
             ELSE /\ recorder' = s.rec
                  /\ exAudPaused' = s.aPaused
                  /\ UNCHANGED <<isFinished, finishRuns, finishCalls, stopCalls,
                                 stopEventPending, exSteps>>
                  /\ IF k # 0
                     THEN LET timeInClip == currentTime - AccumulatedDuration(clips, k - 1)
                              targetVideoTime == ExportTargetVideoTime(clips[k], timeInClip)
                          IN  /\ exVidRate' = ExportRate(clips[k])
                              /\ exVidTime' =
                                    IF AbsDiff(exVidTime, targetVideoTime) > EXPORT_DRIFT
                                    THEN targetVideoTime ELSE exVidTime
                     ELSE UNCHANGED <<exVidRate, exVidTime>>
                  /\ IF k # 0 /\ s.vPaused
                     THEN \* await video.play()
                          /\ renderLoopPc' = "awaitPlay"
                          /\ exVidPaused' = FALSE
                          /\ framePending' = s.fPending
                          /\ UNCHANGED animationFrameId
                     ELSE \* ctx.drawImage; requestAnimationFrame(renderLoop)
                          /\ renderLoopPc' = "returned"
                          /\ exVidPaused' = s.vPaused
                          /\ framePending' = TRUE
                          /\ animationFrameId' = 1

\* handleExport up to the first await of renderVideo (the preload play of the video)
HandleExport ==
    /\ hasVideo
    /\ Len(clips) > 0
    /\ ~isExporting
    /\ exPromise = "none"
    /\ isExporting' = TRUE
    /\ isPlaying' = FALSE
    /\ ReactEffects(FALSE, masterAudioUrl, clips, audDuration, vidPaused)
    /\ video' = "live"
    /\ exPhase' = "preload"
    /\ exPromise' = "pending"
    /\ UNCHANGED <<clips, masterAudioUrl, activeClipId, currentSequenceTime, editingClipId,
                   hasVideo, hasAnalyzed, isDeepScanning, isPolishing, polishIds,
                   isGeneratingAllAudio, genPhase, genClips, genResult, genCount, nextId, editCount,
                   vidTime, isTransitioning, timers, playOps,
                   canvas, audioElement, audioCtx, recorder, stopEventPending, isFinished,
                   animationFrameId, framePending, renderLoopPc, totalDuration, exTime,
                   exAudDuration, exAudPaused, endedEventPending, exVidPaused, exVidTime,
                   exVidRate, exSteps, finishRuns, finishCalls, stopCalls, resolveCalls, timelineVars, cacheVars,
                   waveformCache, zoomVars, geminiVars>>

\* the catch block of renderVideo: cleanup(); reject(e)
CatchBlock(v, c, a, ctx) ==
    /\ Cleanup(v, c, a, ctx, exVidPaused, exAudPaused, framePending)
    /\ exPromise' = "rejected"
    /\ exPhase' = "failed"

\* the preload play of the video rejects
PreloadFail ==
    /\ exPhase = "preload"
    /\ CatchBlock(video, canvas, audioElement, audioCtx)
    /\ UNCHANGED <<editorVars, seqVars, isExporting, recorder, stopEventPending,
                   isFinished, animationFrameId, renderLoopPc, totalDuration,
                   exAudDuration, endedEventPending, exVidRate, exSteps, finishRuns,
                   finishCalls, stopCalls, resolveCalls, timelineVars, cacheVars,
                   waveformCache, zoomVars, geminiVars>>

\* the preload resolves, the canvas is created and getContext returns null
CanvasContextFail ==
    /\ exPhase = "preload"
    /\ totalDuration' = ExportTotalDuration(clips)
    /\ CatchBlock(video, "live", audioElement, audioCtx)
    /\ UNCHANGED <<editorVars, seqVars, isExporting, recorder, stopEventPending,
                   isFinished, animationFrameId, renderLoopPc, exAudDuration,
                   endedEventPending, exVidRate, exSteps, finishRuns, finishCalls,
                   stopCalls, resolveCalls, timelineVars, cacheVars,
                   waveformCache, zoomVars, geminiVars>>

\* the preload resolves and the setup runs through recorder.start(); with master
\* audio it then awaits audioElement.play(), without it it calls video.play()
\* (which the browser may refuse) and makes the first call of renderLoop
PreloadDone ==
    /\ exPhase = "preload"
    /\ totalDuration' = ExportTotalDuration(clips)
    /\ canvas' = "live"
    /\ audioCtx' = "live"
    /\ UNCHANGED <<video, exTime, endedEventPending, resolveCalls, exPromise, isExporting, timelineVars, cacheVars,
                   waveformCache, zoomVars, geminiVars>>
    /\ IF masterAudioUrl # NoUrl
       THEN /\ audioElement' = "live"
            /\ exAudDuration' = audDuration
            /\ recorder' = "recording"
            /\ exPhase' = "audioPlay"
            /\ UNCHANGED <<stopEventPending, isFinished, animationFrameId, framePending,
                           renderLoopPc, exAudPaused, exVidPaused, exVidTime, exVidRate,
                           exSteps, finishRuns, finishCalls, stopCalls>>
       ELSE /\ UNCHANGED <<audioElement, exAudDuration>>
            /\ exPhase' = "running"
            /\ \E refused \in BOOLEAN :
                 RenderLoopBody([Current EXCEPT !.rec = "recording",
                                                !.vPaused = refused,
                                                !.total = ExportTotalDuration(clips)])
    /\ UNCHANGED <<editorVars, seqVars>>

\* audioElement.play() rejects: the catch block
AudioPlayFail ==
    /\ exPhase = "audioPlay"
    /\ CatchBlock(video, canvas, audioElement, audioCtx)
    /\ UNCHANGED <<editorVars, seqVars, isExporting, recorder, stopEventPending,
                   isFinished, animationFrameId, renderLoopPc, totalDuration,
                   exAudDuration, endedEventPending, exVidRate, exSteps, finishRuns,
                   finishCalls, stopCalls, resolveCalls, timelineVars, cacheVars,
                   waveformCache, zoomVars, geminiVars>>

\* audioElement.play() resolves: the first call of renderLoop
AudioPlayDone ==
    /\ exPhase = "audioPlay"
    /\ exPhase' = "running"
    /\ RenderLoopBody([Current EXCEPT !.aPaused = FALSE])
    /\ UNCHANGED <<editorVars, seqVars, isExporting, video, canvas, audioElement, audioCtx,
                   totalDuration, exTime, exAudDuration, endedEventPending, exPromise,
                   resolveCalls, timelineVars, cacheVars,
                   waveformCache, zoomVars, geminiVars>>

\* a frame callback requested by requestAnimationFrame runs renderLoop
RenderFrame ==
    /\ framePending
    /\ RenderLoopBody([Current EXCEPT !.fPending = FALSE])
    /\ UNCHANGED <<editorVars, seqVars, isExporting, exPhase, video, canvas, audioElement,
                   audioCtx, totalDuration, exTime, exAudDuration, endedEventPending,
                   exPromise, resolveCalls, timelineVars, cacheVars,
                   waveformCache, zoomVars, geminiVars>>

\* the promise of the video.play() awaited by renderLoop resolves: the invocation
\* goes on to draw the frame and to request the next one
PlayResolved ==
    /\ renderLoopPc = "awaitPlay"
    /\ renderLoopPc' = "returned"
    /\ framePending' = TRUE
    /\ animationFrameId' = 1
    /\ UNCHANGED <<editorVars, seqVars, isExporting, exPhase, video, canvas, audioElement,
                   audioCtx, recorder, stopEventPending, isFinished, totalDuration, exTime,
                   exAudDuration, exAudPaused, endedEventPending, exVidPaused, exVidTime,
                   exVidRate, exPromise, exSteps, finishRuns, finishCalls, stopCalls,
                   resolveCalls, timelineVars, cacheVars,
                   waveformCache, zoomVars, geminiVars>>

\* that promise rejects: the invocation of renderLoop ends with an error nobody
\* handles (renderLoop() is called without await and without catch)
PlayRejected ==
    /\ renderLoopPc = "awaitPlay"
    /\ renderLoopPc' = "threw"
    /\ exVidPaused' = TRUE
    /\ UNCHANGED <<editorVars, seqVars, isExporting, exPhase, video, canvas, audioElement,
                   audioCtx, recorder, stopEventPending, isFinished, animationFrameId,
                   framePending, totalDuration, exTime, exAudDuration, exAudPaused,
                   endedEventPending, exVidTime, exVidRate, exPromise, exSteps,
                   finishRuns, finishCalls, stopCalls, resolveCalls, timelineVars, cacheVars,
                   waveformCache, zoomVars, geminiVars>>

\* audioElement.onended
AudioEndedEvent ==
    /\ endedEventPending
    /\ endedEventPending' = FALSE
    /\ FinishRender(Current)
    /\ UNCHANGED <<editorVars, seqVars, isExporting, exPhase, video, canvas, audioElement,
                   audioCtx, animationFrameId, renderLoopPc, totalDuration, exTime,
                   exAudDuration, exVidTime, exVidRate, exPromise, resolveCalls, timelineVars, cacheVars,
                   waveformCache, zoomVars, geminiVars>>

\* recorder.onstop: cleanup(); resolve(blob)
RecorderStopEvent ==
    /\ stopEventPending
    /\ stopEventPending' = FALSE
    /\ Cleanup(video, canvas, audioElement, audioCtx, exVidPaused, exAudPaused,
               framePending)
    /\ resolveCalls' = resolveCalls + 1
    /\ exPromise' = IF exPromise = "pending" THEN "resolved" ELSE exPromise
    /\ exSteps' = Append(exSteps, "resolve")
    /\ UNCHANGED <<editorVars, seqVars, isExporting, exPhase, recorder, isFinished,
                   animationFrameId, renderLoopPc, totalDuration, exAudDuration,
                   endedEventPending, exVidRate, finishRuns, finishCalls, stopCalls,
                   timelineVars, cacheVars,
                   waveformCache, zoomVars, geminiVars>>

\* 100 ms pass during an export: the playing audio element advances (and queues its
\* ended event at its end), or, without master audio, the wall clock does; the
\* playing hidden video advances
ExTimePasses ==
    /\ exPhase = "running"
    /\ IF audioElement # "null"
       THEN /\ audioElement = "live"
            /\ ~exAudPaused
            /\ exTime' = Min2(exAudDuration, exTime + 10)
            /\ exAudPaused' = (exTime' = exAudDuration)
            /\ endedEventPending' = (endedEventPending \/ exTime' = exAudDuration)
       ELSE /\ exTime < totalDuration
            /\ exTime' = exTime + 10
            /\ UNCHANGED <<exAudPaused, endedEventPending>>
    /\ IF video = "live" /\ ~exVidPaused /\ renderLoopPc # "awaitPlay"
       THEN /\ exVidTime' = Min2(VideoLength, exVidTime + (10 * exVidRate) \div RATE_ONE)
            /\ exVidPaused' = (exVidTime' = VideoLength)
       ELSE UNCHANGED <<exVidTime, exVidPaused>>
    /\ UNCHANGED <<editorVars, seqVars, isExporting, exPhase, video, canvas, audioElement,
                   audioCtx, recorder, stopEventPending, isFinished, animationFrameId,
                   framePending, renderLoopPc, totalDuration, exAudDuration, exVidRate,
                   exPromise, exSteps, finishRuns, finishCalls, stopCalls, resolveCalls, timelineVars, cacheVars,
                   waveformCache, zoomVars, geminiVars>>

ExportFinally_Invalidate ==
    /\ clips' = [i \in 1..Len(clips) |-> WithoutAudio(clips[i])]
    /\ masterAudioUrl' = NoUrl

\* what the download, the catch and the finally of handleExport do to the project
ExportFinally == UNCHANGED <<clips, masterAudioUrl>>

\* handleExport after its await of renderVideo: download or alert, then finally
ExportSettled ==
    /\ isExporting
    /\ exPromise \in {"resolved", "rejected"}
    /\ isExporting' = FALSE
    /\ ExportFinally
    /\ UNCHANGED <<activeClipId, isPlaying, currentSequenceTime,
                   editingClipId, hasVideo, hasAnalyzed, isDeepScanning, isPolishing,
                   polishIds, isGeneratingAllAudio, genPhase, genClips, genResult, genCount,
                   nextId, editCount, vidTime, seqVars, exPhase, video, canvas, audioElement, audioCtx,
                   recorder, stopEventPending, isFinished, animationFrameId, framePending,
                   renderLoopPc, totalDuration, exTime, exAudDuration, exAudPaused,
                   endedEventPending, exVidPaused, exVidTime, exVidRate, exPromise,
                   exSteps, finishRuns, finishCalls, stopCalls, resolveCalls, timelineVars, cacheVars,
                   waveformCache, zoomVars, geminiVars>>

\* the segment list after upload and analysis
AnalysedProject ==
    LET res == CHOOSE r \in AnalysisResults : TRUE
    IN  [i \in 1..Len(res.audio) |-> GeneratedClip(res.audio[i], i, res.redundancy)]

\* the editor at rest with a project loaded: either analysed only, or with a
\* generated and persisted master audio
ExportInit ==
    /\ \/ /\ clips = GeneratedProject.clips
          /\ masterAudioUrl = [kind |-> "public", gen |-> 1]
          /\ genCount = 1
          /\ genResult = GeneratedProject.result
          /\ audDuration \in GeneratedProject.durations
       \/ /\ clips = AnalysedProject
          /\ masterAudioUrl = NoUrl
          /\ genCount = 0
          /\ genResult = NoResult
          /\ audDuration = 0
    /\ activeClipId = clips[1].id
    /\ isPlaying = FALSE
    /\ currentSequenceTime = 0
    /\ editingClipId = 0
    /\ hasVideo = TRUE
    /\ hasAnalyzed = TRUE
    /\ isDeepScanning = FALSE
    /\ isPolishing = FALSE
    /\ polishIds = {}
    /\ isGeneratingAllAudio = FALSE
    /\ genPhase = "idle"
    /\ genClips = <<>>
    /\ nextId = Len(clips)
    /\ editCount = 0
    /\ vidTime = 0
    /\ vidPaused = TRUE
    /\ vidRate = RATE_ONE
    /\ audTime = 0
    /\ audPaused = TRUE
    /\ audTickPending = FALSE
    /\ audEvents = <<>>
    /\ audStalled = FALSE
    /\ isTransitioning = FALSE
    /\ timers = {}
    /\ playOps = 0
    /\ ExportIdle
    /\ WaveformIdle
    /\ ZoomIdle
    /\ GeminiIdle
    /\ TimelineIdle
    /\ CacheIdle

ExportNext ==
    \/ HandleExport
    \/ PreloadFail
    \/ CanvasContextFail
    \/ PreloadDone
    \/ AudioPlayFail
    \/ AudioPlayDone
    \/ RenderFrame
    \/ PlayResolved
    \/ PlayRejected
    \/ AudioEndedEvent
    \/ RecorderStopEvent
    \/ ExTimePasses
    \/ ExportSettled

ExportSpec == ExportInit /\ [][ExportNext]_vars

-----------------------------------------------------------------------------
(* The generation of the master audio on a polished project *)

\* the analysed project after handlePolishScripts gave every segment a script
PolishedProject ==
    LET res == CHOOSE r \in AnalysisResults : TRUE
        analysed == [i \in 1..Len(res.audio) |->
                        GeneratedClip(res.audio[i], i, res.redundancy)]
    IN  [i \in 1..Len(analysed) |->
            [analysed[i] EXCEPT !.improvedTranscript = <<"A">>]]

\* the editor at rest with a polished project and no master audio yet
GenInit ==
    /\ clips = PolishedProject
    /\ masterAudioUrl = NoUrl
    /\ activeClipId = clips[1].id
    /\ isPlaying = FALSE
    /\ currentSequenceTime = 0
    /\ editingClipId = 0
    /\ hasVideo = TRUE
    /\ hasAnalyzed = TRUE
    /\ isDeepScanning = FALSE
    /\ isPolishing = FALSE
    /\ polishIds = {}
    /\ isGeneratingAllAudio = FALSE
    /\ genPhase = "idle"
    /\ genClips = <<>>
    /\ genResult = NoResult
    /\ genCount = 0
    /\ nextId = Len(clips)
    /\ editCount = 0
    /\ vidTime = 0
    /\ MediaInit
    /\ ExportIdle
    /\ WaveformIdle
    /\ ZoomIdle
    /\ GeminiIdle
    /\ TimelineIdle
    /\ CacheIdle

GenNext ==
    \/ GenerateStart
    \/ GenerateFail
    \/ GenerateSliceThrows
    \/ GenerateSlice
    \/ GeneratePersisted
    \/ GeneratePersistFail
    \/ HandleStartEdit
    \/ HandleSaveEdit
    \/ DeleteClip
    \/ TogglePlayback
    \/ OnAudioEvent

GenSpec == GenInit /\ [][GenNext]_vars

-----------------------------------------------------------------------------
(* The live sequencer when the master audio may run out of data *)

\* the audio element runs out of data while playing: it stops advancing without
\* being paused and fires 'waiting' (events are dispatched in the order they were
\* queued: a timeupdate queued before has been handled by then)
AudioStalls ==
    /\ masterAudioUrl # NoUrl
    /\ ~audPaused /\ ~audStalled
    /\ ~audTickPending
    /\ audTime < audDuration
    /\ Len(audEvents) < MaxEvents
    /\ audStalled' = TRUE
    /\ audEvents' = Append(audEvents, "waiting")
    /\ UNCHANGED <<editorVars, vidPaused, vidRate, audTime, audPaused, audDuration,
                   audTickPending, isTransitioning, timers, playOps, exportVars, timelineVars, cacheVars,
                   waveformCache, zoomVars, geminiVars>>

\* the data arrives: the element advances again and, unless it was paused in the
\* meantime, fires 'playing'
AudioResumes ==
    /\ audStalled
    /\ audStalled' = FALSE
    /\ audEvents' = IF audPaused THEN audEvents ELSE Append(audEvents, "playing")
    /\ UNCHANGED <<editorVars, vidPaused, vidRate, audTime, audPaused, audDuration,
                   audTickPending, isTransitioning, timers, playOps, exportVars, timelineVars, cacheVars,
                   waveformCache, zoomVars, geminiVars>>

MirrorNext ==
    \/ TogglePlayback
    \/ TimePasses
    \/ OnAudioTimeUpdate
    \/ OnAudioEvent
    \/ AudioStalls
    \/ AudioResumes

MirrorSpec == SeqInit /\ [][MirrorNext]_vars

-----------------------------------------------------------------------------
(* One live tick on a segment, the video somewhere around its target *)

\* a segment with script and audio window, as the slicer leaves it
Segment(id, sourceStart, sourceEnd, audioStart, audioEnd) ==
    [id |-> id,
     startTime |-> sourceStart,
     endTime |-> sourceEnd,
     improvedTranscript |-> <<"A">>,
     audioStartTime |-> audioStart,
     audioEndTime |-> audioEnd,
     videoRate |-> SliceRate(audioEnd - audioStart, sourceEnd - sourceStart),
     redundancies |-> {}]

\* single segments of 5 s of audio over 0.4 s to 10 s of video: rates below the
\* floor, below the ceiling, at the ceiling and above it
TickSegments ==
    { Segment(1, 1000, 1000 + videoDuration, 0, 500) :
        videoDuration \in {40, 500, 700, 750, 1000} }

\* an alignment spoken fast: 20 ms for every character
FastAlignment ==
    [characters |-> <<"A", ".", ".", ".", "B">>,
     startTimes |-> <<0, 2, 4, 6, 8>>,
     endTimes |-> <<2, 4, 6, 8, 10>>]

\* the polished project after a generation that received the fast alignment
FastProject ==
    ApplyClipUpdates(PolishedProject,
                     ClipUpdates(TasksOf(PolishedProject), ClipBoundaries(FastAlignment)))

\* segment lists with the duration of their master audio
TickProjects ==
    { [clips |-> <<seg>>, duration |-> seg.audioEndTime - PAD_LAST] :
        seg \in TickSegments }
    \cup { [clips |-> FastProject, duration |-> 10] }

\* master-audio times at which the tick arrives
TickAudioTimes == { 4, 100, 250 }

\* how far the video is from the target when the tick arrives
TickDrifts == { -600, -22, -21, -20, -19, -18, 0, 18, 19, 20, 21, 22 }

\* a generated project is playing, a timeupdate of the audio element is queued
TickInit ==
    /\ \E project \in TickProjects, t \in TickAudioTimes, drift \in TickDrifts :
          /\ CurrentClipIndex(project.clips, t) # 0
          /\ clips = project.clips
          /\ audTime = t
          /\ vidTime = Max2(0, TargetVideoTime(
                                  clips[CurrentClipIndex(clips, t)], t) + drift)
          /\ audDuration = project.duration
    /\ masterAudioUrl = [kind |-> "public", gen |-> 1]
    /\ activeClipId = clips[1].id
    /\ isPlaying = TRUE
    /\ currentSequenceTime = 0
    /\ editingClipId = 0
    /\ hasVideo = TRUE
    /\ hasAnalyzed = TRUE
    /\ isDeepScanning = FALSE
    /\ isPolishing = FALSE
    /\ polishIds = {}
    /\ isGeneratingAllAudio = FALSE
    /\ genPhase = "idle"
    /\ genClips = <<>>
    /\ genResult = NoResult
    /\ genCount = 1
    /\ nextId = Len(clips)
    /\ editCount = 0
    /\ vidPaused \in BOOLEAN
    /\ vidRate = RATE_ONE
    /\ audPaused = FALSE
    /\ audTickPending = TRUE
    /\ audEvents = <<>>
    /\ audStalled = FALSE
    /\ isTransitioning = FALSE
    /\ timers = {}
    /\ playOps = 0
    /\ ExportIdle
    /\ WaveformIdle
    /\ ZoomIdle
    /\ GeminiIdle
    /\ TimelineIdle
    /\ CacheIdle

TickNext ==
    \/ OnAudioTimeUpdate

TickSpec == TickInit /\ [][TickNext]_vars

-----------------------------------------------------------------------------
(* Preview and export of segments that are stretched or squeezed *)

\* single segments whose video is 0.05, 1, 3 and 5 times as long as their audio,
\* the audio window carrying the slicer's pad after the last character
RateSegments ==
    { Segment(1, 0, 5, 0, 100), Segment(1, 0, 100, 0, 100),
      Segment(1, 0, 300, 0, 100), Segment(1, 0, 400, 0, 80) }

\* the polished project after the script of its first segment was emptied in the
\* editor and the audio was generated for the remaining one
PartialProject ==
    LET edited == [PolishedProject EXCEPT ![1].improvedTranscript = <<>>]
    IN  ApplyClipUpdates(edited,
                         ClipUpdates(TasksOf(edited),
                                     ClipBoundaries(AlignmentOf(<<"A">>))))

\* segment lists with the duration of their master audio
RateProjects ==
    { [clips |-> <<seg>>, duration |-> seg.audioEndTime - PAD_LAST] :
        seg \in RateSegments }
    \cup { [clips |-> GeneratedProject.clips, duration |-> 100],
           [clips |-> PartialProject, duration |-> 20] }

\* the editor with a generated project, playing with a timeupdate queued, or
\* with an analysed project without master audio at rest; no export yet
RateInit ==
    /\ \/ \E project \in RateProjects :
            /\ clips = project.clips
            /\ masterAudioUrl = [kind |-> "public", gen |-> 1]
            /\ genCount = 1
            /\ audDuration = project.duration
            /\ audTime = 20
            /\ isPlaying = TRUE
            /\ audPaused = FALSE
            /\ vidPaused = FALSE
            /\ audTickPending = TRUE
       \/ /\ clips = AnalysedProject
          /\ masterAudioUrl = NoUrl
          /\ genCount = 0
          /\ audDuration = 0
          /\ audTime = 0
          /\ isPlaying = FALSE
          /\ audPaused = TRUE
          /\ vidPaused = TRUE
          /\ audTickPending = FALSE
    /\ activeClipId = clips[1].id
    /\ currentSequenceTime = 0
    /\ editingClipId = 0
    /\ hasVideo = TRUE
    /\ hasAnalyzed = TRUE
    /\ isDeepScanning = FALSE
    /\ isPolishing = FALSE
    /\ polishIds = {}
    /\ isGeneratingAllAudio = FALSE
    /\ genPhase = "idle"
    /\ genClips = <<>>
    /\ genResult = NoResult
    /\ nextId = Len(clips)
    /\ editCount = 0
    /\ vidTime = 0
    /\ vidRate = RATE_ONE
    /\ audEvents = <<>>
    /\ audStalled = FALSE
    /\ isTransitioning = FALSE
    /\ timers = {}
    /\ playOps = 0
    /\ ExportIdle
    /\ WaveformIdle
    /\ ZoomIdle
    /\ GeminiIdle
    /\ TimelineIdle
    /\ CacheIdle

RateNext ==
    \/ OnAudioTimeUpdate
    \/ OnAudioEvent
    \/ ExportNext

RateSpec == RateInit /\ [][RateNext]_vars

-----------------------------------------------------------------------------
(* The live sequencer without master audio: the video is the clock *)

ReachedEnd_Past(time, clip) == time > clip.endTime

\* if (vidTime >= currentClip.endTime)
ReachedEnd(time, clip) == time >= clip.endTime

\* onVideoTimeUpdate, for a timeupdate event of the video element, followed by
\* the Play Control Effect when it has stopped the playback
OnVideoTimeUpdate ==
    /\ hasVideo /\ Len(clips) > 0
    /\ masterAudioUrl = NoUrl
    /\ LET currentClipIndex == FindIndex(clips, activeClipId)
       IN  /\ currentClipIndex # 0
           /\ LET currentClip == clips[currentClipIndex]
                  clipProgress == Max2(0, vidTime - currentClip.startTime)
                  accumulated == AccumulatedDuration(clips, currentClipIndex - 1)
                  nextIndex == currentClipIndex + 1
              IN  IF ReachedEnd(vidTime, currentClip)
                  THEN IF nextIndex <= Len(clips)
                       THEN /\ currentSequenceTime' = accumulated + clipProgress
                            /\ activeClipId' = clips[nextIndex].id
                            /\ vidTime' = clips[nextIndex].startTime
                            /\ isPlaying' = isPlaying
                            /\ ReactEffects(isPlaying, masterAudioUrl, clips, audDuration,
                                            vidPaused)
                       ELSE /\ isPlaying' = FALSE
                            /\ activeClipId' = clips[1].id
                            /\ vidTime' = clips[1].startTime
                            /\ currentSequenceTime' = 0
                            /\ ReactEffects(FALSE, masterAudioUrl, clips, audDuration, TRUE)
                  ELSE /\ currentSequenceTime' = accumulated + clipProgress
                       /\ UNCHANGED <<activeClipId, vidTime, isPlaying>>
                       /\ ReactEffects(isPlaying, masterAudioUrl, clips, audDuration,
                                       vidPaused)
    /\ UNCHANGED <<clips, masterAudioUrl, editingClipId, hasVideo, hasAnalyzed,
                   isDeepScanning, isPolishing, polishIds, isGeneratingAllAudio, genPhase,
                   genClips, genResult, genCount, nextId, editCount, isTransitioning,
                   timers, playOps, exportVars, timelineVars, cacheVars,
                   waveformCache, zoomVars, geminiVars>>

\* the editor at rest with an analysed project and no master audio
FallbackInit ==
    /\ clips = AnalysedProject
    /\ masterAudioUrl = NoUrl
    /\ activeClipId = clips[1].id
    /\ isPlaying = FALSE
    /\ currentSequenceTime = 0
    /\ editingClipId = 0
    /\ hasVideo = TRUE
    /\ hasAnalyzed = TRUE
    /\ isDeepScanning = FALSE
    /\ isPolishing = FALSE
    /\ polishIds = {}
    /\ isGeneratingAllAudio = FALSE
    /\ genPhase = "idle"
    /\ genClips = <<>>
    /\ genResult = NoResult
    /\ genCount = 0
    /\ nextId = Len(clips)
    /\ editCount = 0
    /\ vidTime = 0
    /\ MediaInit
    /\ ExportIdle
    /\ WaveformIdle
    /\ ZoomIdle
    /\ GeminiIdle
    /\ TimelineIdle
    /\ CacheIdle

FallbackNext ==
    \/ TogglePlayback
    \/ TimePasses
    \/ OnVideoTimeUpdate

FallbackSpec == FallbackInit /\ [][FallbackNext]_vars

-----------------------------------------------------------------------------
(* The slicer on the alignments a synthesis may return *)

\* characters of an alignment: letters and the dot of the delimiter
SliceChars == { "A", "B", "." }

\* character streams of up to MaxLen characters
SliceStreams == UNION { [1..n -> SliceChars] : n \in 1..MaxLen }

\* how the service may time the characters: every `group` characters share a
\* start time, start times are `step` apart, each character lasts 0.2 s
SliceTimings ==
    { [step |-> 20, group |-> 1],      \* back to back
      [step |-> 30, group |-> 1],      \* a silence after every character
      [step |-> 20, group |-> 5] }     \* five characters reported at one instant

TimedAlignment(chars, timing) ==
    [characters |-> chars,
     startTimes |-> [i \in 1..Len(chars) |-> timing.step * ((i - 1) \div timing.group)],
     endTimes |-> [i \in 1..Len(chars) |->
                      timing.step * ((i - 1) \div timing.group) + 20]]

SliceAlignments ==
    { TimedAlignment(chars, timing) : chars \in SliceStreams, timing \in SliceTimings }

\* an analysed project of n segments of one second each, all of them polished
SliceProject(n) ==
    [i \in 1..n |->
        [GeneratedClip([seconds |-> (i - 1) * 100, duration |-> 100], i, {})
            EXCEPT !.improvedTranscript = <<"A">>]]

\* handleGenerateAllAudio awaiting the synthesis of a polished project
SliceInit ==
    /\ \E n \in 1..MaxSegments : clips = SliceProject(n)
    /\ masterAudioUrl = NoUrl
    /\ activeClipId = clips[1].id
    /\ isPlaying = FALSE
    /\ currentSequenceTime = 0
    /\ editingClipId = 0
    /\ hasVideo = TRUE
    /\ hasAnalyzed = TRUE
    /\ isDeepScanning = FALSE
    /\ isPolishing = FALSE
    /\ polishIds = {}
    /\ isGeneratingAllAudio = TRUE
    /\ genPhase = "synth"
    /\ genClips = clips
    /\ genResult = NoResult
    /\ genCount = 0
    /\ nextId = Len(clips)
    /\ editCount = 0
    /\ vidTime = 0
    /\ MediaInit
    /\ ExportIdle
    /\ WaveformIdle
    /\ ZoomIdle
    /\ GeminiIdle
    /\ TimelineIdle
    /\ CacheIdle

\* the synthesis resolves with any of the alignments
GenerateSliceAny ==
    /\ genPhase = "synth"
    /\ \E alignment \in SliceAlignments : SliceResponse(alignment)

SliceNext ==
    \/ GenerateSliceAny
    \/ GeneratePersisted
    \/ GeneratePersistFail

SliceSpec == SliceInit /\ [][SliceNext]_vars

-----------------------------------------------------------------------------
(* Preview ticks and exports of a project that is edited in between *)

\* the project without master audio with the video playing, somewhere inside
\* the first segment or at the end of the first or of the last one
FallbackPlaying ==
    /\ clips = AnalysedProject
    /\ masterAudioUrl = NoUrl
    /\ genCount = 0
    /\ audDuration = 0
    /\ audTime = 0
    /\ isPlaying = TRUE
    /\ audPaused = TRUE
    /\ vidPaused = FALSE
    /\ audTickPending = FALSE
    /\ activeClipId \in {clips[1].id, clips[Len(clips)].id}
    /\ currentSequenceTime = 0
    /\ editingClipId = 0
    /\ hasVideo = TRUE
    /\ hasAnalyzed = TRUE
    /\ isDeepScanning = FALSE
    /\ isPolishing = FALSE
    /\ polishIds = {}
    /\ isGeneratingAllAudio = FALSE
    /\ genPhase = "idle"
    /\ genClips = <<>>
    /\ genResult = NoResult
    /\ nextId = Len(clips)
    /\ editCount = 0
    /\ vidTime \in {50, clips[1].endTime, clips[Len(clips)].endTime}
    /\ vidRate = RATE_ONE
    /\ audEvents = <<>>
    /\ audStalled = FALSE
    /\ isTransitioning = FALSE
    /\ timers = {}
    /\ playOps = 0
    /\ ExportIdle
    /\ WaveformIdle
    /\ ZoomIdle
    /\ GeminiIdle
    /\ TimelineIdle
    /\ CacheIdle

FrameInit == RateInit \/ FallbackPlaying

FrameNext ==
    \/ OnAudioTimeUpdate
    \/ OnVideoTimeUpdate
    \/ OnAudioEvent
    \/ DeleteClip
    \/ ExportNext

FrameSpec == FrameInit /\ [][FrameNext]_vars

-----------------------------------------------------------------------------
(* Timeline: sequence coordinates (components/advanced-timeline/Timeline.tsx) *)

(* The numbers of the Timeline are binary floating point numbers, in seconds.  *)
(* The model keeps MantissaBits bits of significand and the unit 1 as the      *)
(* smallest step; every addition and subtraction is rounded to the nearest     *)
(* number of the format, ties to the even significand, as IEEE 754 does.       *)

RECURSIVE Spacing(_, _)
\* the distance between neighbouring numbers of the format at magnitude x >= 0,
\* searched from the step g upwards
Spacing(x, g) == IF x < g * 2^MantissaBits THEN g ELSE Spacing(x, 2 * g)

\* the number of the format nearest to the exact result x
Fl(x) ==
    LET a == IF x < 0 THEN -x ELSE x
        g == Spacing(a, 1)
        lo == (a \div g) * g
        hi == lo + g
        r == IF a = lo THEN lo
             ELSE IF a - lo < hi - a THEN lo
             ELSE IF a - lo > hi - a THEN hi
             ELSE IF (lo \div g) % 2 = 0 THEN lo ELSE hi
    IN  IF x < 0 THEN -r ELSE r

\* getClipDuration of the Timeline: clip.endTime - clip.startTime
TimelineClipDuration(clip) == Fl(clip.endTime - clip.startTime)

RECURSIVE AccumulatedTime(_, _)
\* accumulatedTime after the first n clips: accumulatedTime += duration
AccumulatedTime(cs, n) ==
    IF n = 0 THEN 0
    ELSE Fl(AccumulatedTime(cs, n - 1) + TimelineClipDuration(cs[n]))

\* totalSequenceDuration: clips.reduce((acc, clip) => acc + getClipDuration(clip), 0) || 60
TimelineTotalDuration(cs) ==
    IF AccumulatedTime(cs, Len(cs)) = 0 THEN 60 ELSE AccumulatedTime(cs, Len(cs))

\* clipsWithSequenceInfo
ClipsWithSequenceInfo(cs) ==
    [i \in 1..Len(cs) |->
        [clip |-> cs[i],
         sequenceStart |-> AccumulatedTime(cs, i - 1),
         sequenceEnd |-> Fl(AccumulatedTime(cs, i - 1) + TimelineClipDuration(cs[i])),
         duration |-> TimelineClipDuration(cs[i])]]

\* rawVideoTimeToSequenceTime
RawVideoTimeToSequenceTime(cs, rawVideoTime) ==
    LET hits == {i \in 1..Len(cs) :
                    rawVideoTime >= cs[i].startTime /\ rawVideoTime < cs[i].endTime}
    IN  IF hits # {}
        THEN LET i == CHOOSE i \in hits : \A j \in hits : i <= j
                 offsetInClip == Fl(rawVideoTime - cs[i].startTime)
             IN  Fl(AccumulatedTime(cs, i - 1) + offsetInClip)
        ELSE IF Len(cs) > 0 /\ rawVideoTime < cs[1].startTime
             THEN 0
             ELSE TimelineTotalDuration(cs)

RawTimeIn_FromZero(info, clampedSeqTime) == Fl(info.clip.startTime + clampedSeqTime)

\* the raw time at a sequence time inside a clip: clip.startTime + offsetInClip
RawTimeIn(info, clampedSeqTime) ==
    Fl(info.clip.startTime + Fl(clampedSeqTime - info.sequenceStart))

\* sequenceTimeToRawVideoTime; clipInfo is the position of the clip, 0 for null.
\* (The edge test compares with lastClip.sequenceEnd - 0.001: a thousandth of the
\* unit, which no two numbers of the model lie apart.)
SequenceTimeToRawVideoTime(cs, sequenceTime) ==
    LET infos == ClipsWithSequenceInfo(cs)
        clampedSeqTime == Max2(0, Min2(sequenceTime, TimelineTotalDuration(cs)))
        hits == {i \in 1..Len(cs) :
                    /\ clampedSeqTime >= infos[i].sequenceStart
                    /\ clampedSeqTime < infos[i].sequenceEnd}
    IN  IF hits # {}
        THEN LET i == CHOOSE i \in hits : \A j \in hits : i <= j
             IN  [rawTime |-> RawTimeIn(infos[i], clampedSeqTime), clipInfo |-> i]
        ELSE IF Len(cs) > 0
             THEN IF clampedSeqTime >= infos[Len(cs)].sequenceEnd
                  THEN [rawTime |-> cs[Len(cs)].endTime, clipInfo |-> Len(cs)]
                  ELSE [rawTime |-> cs[1].startTime, clipInfo |-> 1]
             ELSE [rawTime |-> 0, clipInfo |-> 0]

\* source times at which clips start and end and at which the video may stand
TimelineTimes == { 1, 20, 22, 26, 28 }

\* sequence times a caller may pass: the times above, one before 0, one beyond
\* every total duration
SequenceTimes == TimelineTimes \cup { -1, 64 }

TimelineClips ==
    { [startTime |-> a, endTime |-> b] : a \in TimelineTimes, b \in TimelineTimes }
       \ { c \in [startTime : TimelineTimes, endTime : TimelineTimes] :
              c.startTime >= c.endTime }

\* the clip lists of up to MaxClips clips of positive duration, in any order
TimelineClipLists == UNION { [1..n -> TimelineClips] : n \in 0..MaxClips }

\* a Timeline mounted on a clip list, the video at some source time
TimelineInit ==
    /\ EditorInit
    /\ MediaInit
    /\ ExportIdle
    /\ WaveformIdle
    /\ ZoomIdle
    /\ GeminiIdle
    /\ CacheIdle
    /\ tlClips \in TimelineClipLists
    /\ tlRawTime \in TimelineTimes
    /\ tlSeqTime = 0
    /\ tlClipInfo = 0

\* updatePlayhead: the playhead is put at the sequence time of video.currentTime
UpdatePlayhead ==
    /\ tlSeqTime' = RawVideoTimeToSequenceTime(tlClips, tlRawTime)
    /\ UNCHANGED <<waveformCache, zoomVars, geminiVars, editorVars, seqVars, exportVars, cacheVars, tlClips, tlRawTime,
                   tlClipInfo>>

\* handleTimelineClick from the conversion on: sequenceTimeToRawVideoTime at the
\* sequence time of the click (anywhere, or exactly where the playhead stands),
\* videoRef.current.currentTime = rawTime, the clip reported to onClipSelect
HandleTimelineClick ==
    /\ \E sequenceTime \in SequenceTimes \cup {tlSeqTime} :
         LET found == SequenceTimeToRawVideoTime(tlClips, sequenceTime)
         IN  /\ tlSeqTime' = sequenceTime
             /\ tlRawTime' = found.rawTime
             /\ tlClipInfo' = found.clipInfo
    /\ UNCHANGED <<waveformCache, zoomVars, geminiVars, editorVars, seqVars, exportVars, cacheVars, tlClips>>

TimelineNext ==
    \/ UpdatePlayhead
    \/ HandleTimelineClick

TimelineSpec == TimelineInit /\ [][TimelineNext]_vars

-----------------------------------------------------------------------------
(* The thumbnail cache (components/advanced-timeline/hooks/use-thumbnail-cache.ts) *)

\* the keys createKey may return: one number for each distinct request
CacheKeys == 1..MaxKeys

\* the position of a key in the cache, 0 when it has no entry
CacheIndex(c, key) ==
    IF \E i \in 1..Len(c) : c[i].key = key
    THEN CHOOSE i \in 1..Len(c) : c[i].key = key
    ELSE 0

\* this.cache.delete(key)
CacheDelete(c, key) ==
    SelectSeqBy(c, {e \in {c[i] : i \in 1..Len(c)} : e.key # key})

\* this.cache.set(key, {data, lastAccessed}): an entry of the key is replaced
\* where it stands, a new key is added behind the others
CachePut(c, key, time) ==
    IF CacheIndex(c, key) # 0
    THEN [c EXCEPT ![CacheIndex(c, key)] = [key |-> key, lastAccessed |-> time]]
    ELSE Append(c, [key |-> key, lastAccessed |-> time])

RECURSIVE OldestKey(_, _, _, _)
\* the forEach of set from position i on: the first entry with the smallest
\* lastAccessed below oldestTime (0 = null: no entry is older than oldestTime)
OldestKey(c, i, oldestTime, oldestKey) ==
    IF i > Len(c) THEN oldestKey
    ELSE IF c[i].lastAccessed < oldestTime
         THEN OldestKey(c, i + 1, c[i].lastAccessed, c[i].key)
         ELSE OldestKey(c, i + 1, oldestTime, oldestKey)

\* "LRU eviction if at capacity": if (this.cache.size >= this.maxEntries)
AtCapacity(c, key) == Len(c) >= maxEntries

\* get(src, start, end, count)
CacheGet(key) ==
    /\ cacheOps < MaxOps
    /\ cacheOps' = cacheOps + 1
    /\ LET i == CacheIndex(cache, key)
       IN  IF i = 0
           THEN UNCHANGED cache
           ELSE IF now - cache[i].lastAccessed > maxAgeMs
                THEN cache' = CacheDelete(cache, key)
                ELSE cache' = [cache EXCEPT ![i].lastAccessed = now]
    /\ UNCHANGED <<waveformCache, zoomVars, geminiVars, editorVars, seqVars, exportVars, timelineVars, now>>

\* set(src, start, end, count, data)
CacheSet(key) ==
    /\ cacheOps < MaxOps
    /\ cacheOps' = cacheOps + 1
    /\ LET oldestKey == OldestKey(cache, 1, now, 0)
           kept == IF AtCapacity(cache, key) /\ oldestKey # 0
                   THEN CacheDelete(cache, oldestKey)
                   ELSE cache
       IN  cache' = CachePut(kept, key, now)
    /\ UNCHANGED <<waveformCache, zoomVars, geminiVars, editorVars, seqVars, exportVars, timelineVars, now>>

ThumbnailGet == \E key \in CacheKeys : CacheGet(key)

ThumbnailSet == \E key \in CacheKeys : CacheSet(key)

\* clear(), called by clearThumbnailCache
CacheClear ==
    /\ cacheOps < MaxOps
    /\ cacheOps' = cacheOps + 1
    /\ cache' = <<>>
    /\ UNCHANGED <<waveformCache, zoomVars, geminiVars, editorVars, seqVars, exportVars, timelineVars, now>>

\* cleanup(), called every minute
CacheCleanup ==
    /\ cacheOps < MaxOps
    /\ cacheOps' = cacheOps + 1
    /\ cache' = SelectSeqBy(cache, {e \in {cache[i] : i \in 1..Len(cache)} :
                                       ~(now - e.lastAccessed > maxAgeMs)})
    /\ UNCHANGED <<waveformCache, zoomVars, geminiVars, editorVars, seqVars, exportVars, timelineVars, now>>

\* Date.now() moves on, by a millisecond or by more than the maximal age
ClockAdvances ==
    /\ cacheOps < MaxOps
    /\ cacheOps' = cacheOps + 1
    /\ \E d \in {1, maxAgeMs + 1} : now' = now + d
    /\ UNCHANGED <<waveformCache, zoomVars, geminiVars, editorVars, seqVars, exportVars, timelineVars, cache>>

\* a cache of n entries, requested one after the other a millisecond apart
Staggered(n) == [k \in 1..n |-> [key |-> k, lastAccessed |-> k]]

\* a cache of n entries that were all read within the present millisecond
ReadAtOnce(n, time) == [k \in 1..n |-> [key |-> k, lastAccessed |-> time]]

\* the cache empty, about to be full, or full, the clock at the last access
CacheInit ==
    /\ EditorInit
    /\ MediaInit
    /\ ExportIdle
    /\ WaveformIdle
    /\ ZoomIdle
    /\ GeminiIdle
    /\ TimelineIdle
    /\ cacheOps = 0
    /\ \/ cache = <<>> /\ now = 0
       \/ cache = Staggered(maxEntries - 1) /\ now = maxEntries - 1
       \/ cache = Staggered(maxEntries) /\ now = maxEntries
       \/ cache = ReadAtOnce(maxEntries, maxEntries) /\ now = maxEntries

CacheNext ==
    \/ ThumbnailGet
    \/ ThumbnailSet
    \/ CacheClear
    \/ CacheCleanup
    \/ ClockAdvances

CacheSpec == CacheInit /\ [][CacheNext]_vars

-----------------------------------------------------------------------------
(* The waveform cache (components/advanced-timeline/hooks/use-waveform-cache.ts) *)

\* the cache keys `${src}:${startTime.toFixed(3)}:${duration.toFixed(3)}`: one
\* number for each distinct request
WaveformKeys == 1..MaxWaveforms

\* the effect of useWaveformProcessor on a request that is in the cache:
\* waveformCache.get(cacheKey) returns the data and nothing is stored
WaveformCached ==
    /\ \E cacheKey \in WaveformKeys : cacheKey \in waveformCache
    /\ UNCHANGED vars

\* generateWaveform at its end, for a request that was not in the cache when the
\* effect ran: waveformCache.set(cacheKey, result)
GenerateWaveform ==
    /\ \E cacheKey \in WaveformKeys : waveformCache' = waveformCache \cup {cacheKey}
    /\ UNCHANGED <<editorVars, seqVars, exportVars, timelineVars, cacheVars,
                   zoomVars, geminiVars>>

\* clearWaveformCache()
ClearWaveformCache ==
    /\ waveformCache' = {}
    /\ UNCHANGED <<editorVars, seqVars, exportVars, timelineVars, cacheVars,
                   zoomVars, geminiVars>>

WaveformInit ==
    /\ EditorInit
    /\ MediaInit
    /\ ExportIdle
    /\ TimelineIdle
    /\ CacheIdle
    /\ ZoomIdle
    /\ GeminiIdle
    /\ WaveformIdle

WaveformNext ==
    \/ WaveformCached
    \/ GenerateWaveform
    \/ ClearWaveformCache

WaveformSpec == WaveformInit /\ [][WaveformNext]_vars

-----------------------------------------------------------------------------
(* The text sent to synthesis: handleGenerateAllAudio, step 1 *)

\* const DELIMITER = " ... "
DELIMITER == <<" ", ".", ".", ".", " ">>

RECURSIVE SanitizeText(_)
\* text.replace(/\.\.\./g, ","): every three dots in a row, from the left, become
\* a comma
SanitizeText(text) ==
    IF Len(text) >= 3 /\ text[1] = "." /\ text[2] = "." /\ text[3] = "."
    THEN <<",">> \o SanitizeText(SubSeq(text, 4, Len(text)))
    ELSE IF text = <<>> THEN <<>>
         ELSE <<Head(text)>> \o SanitizeText(Tail(text))

RECURSIVE JoinTexts(_)
\* clipsTexts.join(DELIMITER)
JoinTexts(clipsTexts) ==
    IF clipsTexts = <<>> THEN <<>>
    ELSE IF Len(clipsTexts) = 1 THEN clipsTexts[1]
         ELSE clipsTexts[1] \o DELIMITER \o JoinTexts(Tail(clipsTexts))

\* fullText of the tasks
FullText(tasks) ==
    JoinTexts([i \in 1..Len(tasks) |-> SanitizeText(tasks[i].improvedTranscript)])

RECURSIVE StripWhitespace(_)
\* the character stream of a synthesis that reports no whitespace characters
StripWhitespace(chars) ==
    IF chars = <<>> THEN <<>>
    ELSE IF Head(chars) = " " THEN StripWhitespace(Tail(chars))
         ELSE <<Head(chars)>> \o StripWhitespace(Tail(chars))

\* the character streams the synthesis may report for a text: every character,
\* or every character but the whitespace
StreamsOf(fullText) == { fullText, StripWhitespace(fullText) }

\* polished texts: letters, dots and spaces, not only spaces
TextChars == { "A", ".", " " }

PolishedTexts ==
    { text \in UNION { [1..n -> TextChars] : n \in 1..MaxTextLen } :
        \E i \in 1..Len(text) : text[i] # " " }

\* an analysed project whose segments carry the given polished texts
TextProject(texts) ==
    [i \in 1..Len(texts) |->
        [GeneratedClip([seconds |-> (i - 1) * 100, duration |-> 100], i, {})
            EXCEPT !.improvedTranscript = texts[i]]]

\* handleGenerateAllAudio awaiting the synthesis of the joined texts
JoinInit ==
    /\ \E texts \in UNION { [1..n -> PolishedTexts] : n \in 1..MaxTexts } :
         clips = TextProject(texts)
    /\ masterAudioUrl = NoUrl
    /\ activeClipId = clips[1].id
    /\ isPlaying = FALSE
    /\ currentSequenceTime = 0
    /\ editingClipId = 0
    /\ hasVideo = TRUE
    /\ hasAnalyzed = TRUE
    /\ isDeepScanning = FALSE
    /\ isPolishing = FALSE
    /\ polishIds = {}
    /\ isGeneratingAllAudio = TRUE
    /\ genPhase = "synth"
    /\ genClips = clips
    /\ genResult = NoResult
    /\ genCount = 0
    /\ nextId = Len(clips)
    /\ editCount = 0
    /\ vidTime = 0
    /\ MediaInit
    /\ ExportIdle
    /\ WaveformIdle
    /\ ZoomIdle
    /\ GeminiIdle
    /\ TimelineIdle
    /\ CacheIdle

\* the synthesis resolves with the alignment of the text that was sent
GenerateSliceJoined ==
    /\ genPhase = "synth"
    /\ \E chars \in StreamsOf(FullText(TasksOf(genClips))) :
         SliceResponse(TimedAlignment(chars, [step |-> 20, group |-> 1]))

JoinNext ==
    \/ GenerateSliceJoined
    \/ GeneratePersisted
    \/ GeneratePersistFail

JoinSpec == JoinInit /\ [][JoinNext]_vars

-----------------------------------------------------------------------------
(* Fallback playback of projects whose segments leave parts of the source out *)

\* audio events an analysis may return: speech from the start of the file on, or
\* only after a silence, with a pause between the two events
CutResults ==
    { << [seconds |-> 0, duration |-> 100], [seconds |-> 100, duration |-> 100] >>,
      << [seconds |-> 50, duration |-> 100], [seconds |-> 200, duration |-> 100] >> }

\* the project startDeepAnalysis builds of the events
CutProject(audio) == [i \in 1..Len(audio) |-> GeneratedClip(audio[i], i, {})]

\* an analysed project without master audio, the video loaded and at its start
CutInit ==
    /\ \E audio \in CutResults : clips = CutProject(audio)
    /\ masterAudioUrl = NoUrl
    /\ activeClipId = clips[1].id
    /\ isPlaying = FALSE
    /\ currentSequenceTime = 0
    /\ editingClipId = 0
    /\ hasVideo = TRUE
    /\ hasAnalyzed = TRUE
    /\ isDeepScanning = FALSE
    /\ isPolishing = FALSE
    /\ polishIds = {}
    /\ isGeneratingAllAudio = FALSE
    /\ genPhase = "idle"
    /\ genClips = <<>>
    /\ genResult = NoResult
    /\ genCount = 0
    /\ nextId = Len(clips)
    /\ editCount = 0
    /\ vidTime = 0
    /\ MediaInit
    /\ ExportIdle
    /\ WaveformIdle
    /\ ZoomIdle
    /\ GeminiIdle
    /\ TimelineIdle
    /\ CacheIdle

CutNext ==
    \/ TogglePlayback
    \/ TimePasses
    \/ OnVideoTimeUpdate
    \/ MoveClip
    \/ DeleteClip

CutSpec == CutInit /\ [][CutNext]_vars

-----------------------------------------------------------------------------
(* Exports of a narrated project that is edited before it is exported *)

\* generated projects: the narration of the first segment takes three times as
\* long as its footage, or every narration is shorter than its footage
NarratedProjects ==
    { << Segment(1, 0, 100, 0, 300), Segment(2, 100, 200, 300, 350) >>,
      GeneratedProject.clips }

\* a generated project at rest, its master audio loaded
NarratedInit ==
    /\ clips \in NarratedProjects
    /\ masterAudioUrl = [kind |-> "public", gen |-> 1]
    /\ genCount = 1
    /\ audDuration = clips[Len(clips)].audioEndTime - PAD_LAST
    /\ audTime = 0
    /\ isPlaying = FALSE
    /\ audPaused = TRUE
    /\ vidPaused = TRUE
    /\ audTickPending = FALSE
    /\ activeClipId = clips[1].id
    /\ currentSequenceTime = 0
    /\ editingClipId = 0
    /\ hasVideo = TRUE
    /\ hasAnalyzed = TRUE
    /\ isDeepScanning = FALSE
    /\ isPolishing = FALSE
    /\ polishIds = {}
    /\ isGeneratingAllAudio = FALSE
    /\ genPhase = "idle"
    /\ genClips = <<>>
    /\ genResult = NoResult
    /\ nextId = Len(clips)
    /\ editCount = 0
    /\ vidTime = 0
    /\ vidRate = RATE_ONE
    /\ audEvents = <<>>
    /\ audStalled = FALSE
    /\ isTransitioning = FALSE
    /\ timers = {}
    /\ playOps = 0
    /\ ExportIdle
    /\ WaveformIdle
    /\ ZoomIdle
    /\ GeminiIdle
    /\ TimelineIdle
    /\ CacheIdle

NarratedNext ==
    \/ MoveClip
    \/ DeleteClip
    \/ ExportNext

NarratedSpec == NarratedInit /\ [][NarratedNext]_vars

-----------------------------------------------------------------------------
(* Imports of a video file: upload, link import and screen capture *)

\* an import is begun while no video is loaded (the import panel is shown only
\* then): processVideoFile up to its `await uploadMedia(file)`. The upload input
\* is disabled while an upload runs; the link import and the capture are not
ProcessVideoFileStart ==
    /\ ~hasVideo
    /\ uploadsPending < MaxImports
    /\ uploadsPending' = uploadsPending + 1
    /\ UNCHANGED <<editorVars, seqVars, exportVars, timelineVars, cacheVars,
                   waveformCache, zoomVars, gwfPc, gwfAttempts, gwfWaited, gwfCalls>>

\* uploadMedia resolves: processVideoFile from setVideo on
ProcessVideoFileUploaded ==
    /\ uploadsPending > 0
    /\ uploadsPending' = uploadsPending - 1
    /\ hasVideo' = TRUE
    /\ clips' = <<>>
    /\ hasAnalyzed' = FALSE
    /\ currentSequenceTime' = 0
    /\ InvalidateMasterAudio
    /\ vidTime' = 0
    /\ UNCHANGED <<seqVars, exportVars, editCount, isPolishing, polishIds, activeClipId,
                   isPlaying, editingClipId, isDeepScanning, isGeneratingAllAudio,
                   genPhase, genClips, genResult, genCount, nextId, timelineVars,
                   cacheVars, waveformCache, zoomVars, gwfPc, gwfAttempts, gwfWaited,
                   gwfCalls>>

ImportNext ==
    \/ ProcessVideoFileStart
    \/ ProcessVideoFileUploaded
    \/ StartDeepAnalysis
    \/ AnalysisDone
    \/ AnalysisFail
    \/ HandleJump
    \/ DeleteClip
    \/ FixRedundancy
    \/ SplitClipAtPlayhead
    \/ MoveClip

ImportSpec == Init /\ [][ImportNext]_vars

-----------------------------------------------------------------------------
(* Generation with retry and fallback: generateWithFallback of the Gemini service *)

\* the outcomes of one ai.models.generateContent call: a response, or an error
\* with a status and a message (a sequence of words; <<>> for an error without
\* message)
Response == [kind |-> "response", status |-> 200, message |-> <<>>]

ApiError(status, message) == [kind |-> "error", status |-> status, message |-> message]

Outcomes ==
    { Response,
      ApiError(429, <<"Too", "Many", "Requests">>),
      ApiError(0, <<"got", "status", "429">>),
      ApiError(0, <<"quota", "exceeded">>),
      ApiError(500, <<"internal", "error">>),
      ApiError(0, <<>>) }

\* String.prototype.includes, on the words of a message
Includes(message, word) == \E i \in 1..Len(message) : message[i] = word

IsRateLimit_AnyError(error) == TRUE

\* isRateLimit of generateWithFallback's catch block
IsRateLimit(error) ==
    \/ error.status = 429
    \/ Includes(error.message, "429")
    \/ Includes(error.message, "quota")

\* a generateContent call with the given model has settled
Attempted(model, outcome) == Append(gwfAttempts, [model |-> model, outcome |-> outcome])

\* a caller (generateVideoTimeline, detectSilenceAndInactivity,
\* polishClipTranscripts, sendMessageToGemini) calls generateWithFallback
GenerateWithFallback ==
    /\ gwfPc \in {"idle", "resolved", "rejected"}
    /\ gwfCalls < MaxCalls
    /\ gwfCalls' = gwfCalls + 1
    /\ gwfPc' = "attempt1"
    /\ gwfAttempts' = <<>>
    /\ gwfWaited' = 0
    /\ UNCHANGED <<uploadsPending, editorVars, seqVars, exportVars, timelineVars, cacheVars,
                   waveformCache, zoomVars>>

\* "Attempt 1: Primary Model" settles
PrimaryAttempt ==
    /\ gwfPc = "attempt1"
    /\ \E outcome \in Outcomes :
         /\ gwfAttempts' = Attempted("primary", outcome)
         /\ gwfPc' = IF outcome.kind = "response" THEN "resolved"
                     ELSE IF IsRateLimit(outcome) THEN "delay"
                     ELSE "rejected"
    /\ UNCHANGED <<gwfWaited, gwfCalls, uploadsPending, editorVars, seqVars, exportVars,
                   timelineVars, cacheVars, waveformCache, zoomVars>>

\* await delay(4000)
RetryDelay ==
    /\ gwfPc = "delay"
    /\ gwfWaited' = gwfWaited + RETRY_DELAY
    /\ gwfPc' = "attempt2"
    /\ UNCHANGED <<gwfAttempts, gwfCalls, uploadsPending, editorVars, seqVars, exportVars,
                   timelineVars, cacheVars, waveformCache, zoomVars>>

\* "Attempt 2: Retry Primary" settles
PrimaryRetry ==
    /\ gwfPc = "attempt2"
    /\ \E outcome \in Outcomes :
         /\ gwfAttempts' = Attempted("primary", outcome)
         /\ gwfPc' = IF outcome.kind = "response" THEN "resolved" ELSE "attempt3"
    /\ UNCHANGED <<gwfWaited, gwfCalls, uploadsPending, editorVars, seqVars, exportVars,
                   timelineVars, cacheVars, waveformCache, zoomVars>>

\* "Attempt 3: Fallback Model" settles; its error leaves the function
FallbackAttempt ==
    /\ gwfPc = "attempt3"
    /\ \E outcome \in Outcomes :
         /\ gwfAttempts' = Attempted("fallback", outcome)
         /\ gwfPc' = IF outcome.kind = "response" THEN "resolved" ELSE "rejected"
    /\ UNCHANGED <<gwfWaited, gwfCalls, uploadsPending, editorVars, seqVars, exportVars,
                   timelineVars, cacheVars, waveformCache, zoomVars>>

GeminiNext ==
    \/ GenerateWithFallback
    \/ PrimaryAttempt
    \/ RetryDelay
    \/ PrimaryRetry
    \/ FallbackAttempt

GeminiSpec == Init /\ [][GeminiNext]_vars

-----------------------------------------------------------------------------
(* The zoom of the Timeline: stores/use-zoom-store.ts and handleWheelZoom *)

\* Zoom scales are integers in ten-thousandths (1.0 = 10000); a product of two
\* of them is brought back to the unit, rounded down.

\* setZoomScale of the store
SetZoomScale(scale) == zoomScale' = Max2(ZOOM_MIN, Min2(ZOOM_MAX, scale))

\* calculateNewZoom of the store: one parameter, the current scale read from the
\* store
CalculateNewZoom(delta) ==
    Min2(ZOOM_MAX, Max2(ZOOM_MIN, zoomScale + (delta * ZOOM_STEP) \div ZOOM_UNIT))

\* the binding of a JavaScript call: the function's only parameter receives the
\* first argument, further arguments are dropped
FirstArgument(args) == args[1]

\* deltaY of the wheel events, and the time since the previous one
WheelDeltas == { -100, 100 }

WheelGapsMs == { 8, 16 }

\* handleWheelZoom of Timeline.tsx, for a wheel event that arrives elapsed
\* milliseconds after the previous one
HandleWheelZoom(ctrlOrMeta, deltaY, elapsed) ==
    /\ now + elapsed <= THROTTLE_MS + MaxWheelMs
    /\ now' = now + elapsed
    /\ IF ctrlOrMeta /\ ~(now' - lastZoomTime < THROTTLE_MS)
       THEN LET delta == IF deltaY > 0 THEN 0 - ZOOM_STEP ELSE ZOOM_STEP
                \* calculateNewZoom(zoomScale, delta)
                newZoom == CalculateNewZoom(FirstArgument(<<zoomScale, delta>>))
            IN  /\ lastZoomTime' = now'
                /\ SetZoomScale(newZoom)
       ELSE UNCHANGED <<zoomScale, lastZoomTime>>
    /\ UNCHANGED <<cache, cacheOps, waveformCache, geminiVars, editorVars, seqVars,
                   exportVars, timelineVars>>

WheelEvent ==
    \E ctrlOrMeta \in BOOLEAN, deltaY \in WheelDeltas, elapsed \in WheelGapsMs :
        HandleWheelZoom(ctrlOrMeta, deltaY, elapsed)

\* zoomIn of the store (the + key and the zoom-in button)
ZoomIn ==
    /\ zoomScale' = Min2(ZOOM_MAX, zoomScale + ZOOM_STEP)
    /\ UNCHANGED <<lastZoomTime, cacheVars, waveformCache, geminiVars, editorVars, seqVars,
                   exportVars, timelineVars>>

\* zoomOut of the store (the - key and the zoom-out button)
ZoomOut ==
    /\ zoomScale' = Max2(ZOOM_MIN, zoomScale - ZOOM_STEP)
    /\ UNCHANGED <<lastZoomTime, cacheVars, waveformCache, geminiVars, editorVars, seqVars,
                   exportVars, timelineVars>>

\* resetZoom of the store, and handleFitToView's setZoomScale(1)
ResetZoom ==
    /\ SetZoomScale(ZOOM_DEFAULT)
    /\ UNCHANGED <<lastZoomTime, cacheVars, waveformCache, geminiVars, editorVars, seqVars,
                   exportVars, timelineVars>>

\* the Timeline right after it was mounted; Date.now() is beyond the throttle
\* window that starts at lastZoomTimeRef's initial 0
ZoomInit ==
    /\ EditorInit
    /\ MediaInit
    /\ ExportIdle
    /\ WaveformIdle
    /\ ZoomIdle
    /\ GeminiIdle
    /\ TimelineIdle
    /\ cache = <<>>
    /\ cacheOps = 0
    /\ now = THROTTLE_MS

ZoomNext ==
    \/ WheelEvent
    \/ ZoomIn
    \/ ZoomOut
    \/ ResetZoom

ZoomSpec == ZoomInit /\ [][ZoomNext]_vars

-----------------------------------------------------------------------------
(* Claims about the live sequencer *)

\* the 100 ms window of some manual seek has not yet elapsed
SeekInProgress == \E t \in timers : t > 0

\* C3: while a manual seek is in progress (from its taking the lock until its own
\* 100 ms window has elapsed), an audio tick changes neither the active segment nor
\* the video's rate nor the video's position, whatever seeks, timers and ticks
\* came before.
C3_NoSyncDuringSeek ==
    [][(SeekInProgress /\ OnAudioTimeUpdate)
          => (activeClipId' = activeClipId /\ vidRate' = vidRate /\ vidTime' = vidTime)]_vars

\* the Ready state at the first segment
ReadyAtFirst ==
    /\ ~isPlaying
    /\ audPaused
    /\ vidPaused
    /\ activeClipId = clips[1].id
    /\ vidTime = clips[1].startTime
    /\ currentSequenceTime = 0

\* nothing is left to run without the user: no tick, media event or timer is queued
\* and neither element is playing
PlaybackAtRest ==
    /\ ~audTickPending
    /\ audEvents = <<>>
    /\ timers = {}
    /\ audPaused
    /\ vidPaused

\* C4: in master-audio mode, once playback has run to the end of the audio and
\* everything queued has been handled, the sequencer is in Ready at the first
\* segment: not playing, both elements paused, the first segment active, the video
\* at its source start, the sequence time 0.
C4_EndOfAudioReturnsToReady ==
    (masterAudioUrl # NoUrl /\ audDuration > 0 /\ audTime = audDuration /\ PlaybackAtRest)
        => ReadyAtFirst

-----------------------------------------------------------------------------
(* Claims about the editor *)

\* no clip carries audioStartTime, audioEndTime or videoRate
NoAudioFields(cs) ==
    \A i \in 1..Len(cs) :
        /\ cs[i].audioStartTime = UNDEFINED
        /\ cs[i].audioEndTime = UNDEFINED
        /\ cs[i].videoRate = UNDEFINED

\* a step of one of the five edit operations on the segment list
EditOperation ==
    HandleSaveEdit \/ MoveClip \/ DeleteClip \/ SplitClipAtPlayhead \/ FixRedundancy

\* C1: after any edit operation on the segment list (save of an edited text, move,
\* delete, split at the playhead, redundancy cut) no segment carries audio fields
\* and the master audio handle is null.
C1_EditClearsAllAudio ==
    [][EditOperation => (NoAudioFields(clips') /\ masterAudioUrl' = NoUrl)]_vars

\* the audio fields of the clips, by position
AudioFieldsOf(cs) ==
    [i \in 1..Len(cs) |-> <<cs[i].id, cs[i].audioStartTime, cs[i].audioEndTime,
                            cs[i].videoRate>>]

\* C2: when the segment list was edited between the issue of a synthesis call and
\* its completion, the completed result is discarded: it sets no segment's audio
\* fields and installs no master audio.
C2_StaleSynthesisDiscarded ==
    [][(genPhase = "synth" /\ genPhase' = "persist" /\ clips # genClips)
         => (AudioFieldsOf(clips') = AudioFieldsOf(clips)
             /\ masterAudioUrl' = masterAudioUrl)]_vars

\* the clips that carry an audio window, in list order
WindowedClips(cs) == SelectSeqBy(cs, {c \in {cs[i] : i \in 1..Len(cs)} : HasAudio(c)})

\* the windows start at 0 and each one starts where the previous one ends
Contiguous(ws) ==
    /\ Len(ws) > 0 => ws[1].audioStartTime = 0
    /\ \A i \in 1..(Len(ws) - 1) : ws[i + 1].audioStartTime = ws[i].audioEndTime

\* C10: whenever a master audio is present, the audio windows of the segments that
\* carry them are, in list order, contiguous and gapless, starting at 0.
C10_WindowsContiguous ==
    masterAudioUrl # NoUrl => Contiguous(WindowedClips(clips))

-----------------------------------------------------------------------------
(* Claims about the generation of the master audio *)

\* the step of handleGenerateAllAudio that received an alignment from the service
SliceStep == genPhase = "synth" /\ genResult'.kind = "alignment"

\* C11: when the number of boundaries recovered from the alignment differs from
\* the number of participating segment texts, the generation ends in a failure
\* and no segment is given an audio range (nothing is paired by position)
C11_MismatchAssignsNothing ==
    [][(/\ SliceStep
        /\ Len(ClipBoundaries(genResult'.alignment)) # Len(TasksOf(genClips)))
       => (/\ genPhase' = "idle"
           /\ AudioFieldsOf(clips') = AudioFieldsOf(clips))]_vars

\* arrays of different lengths, or a time that lies before its predecessor
Malformed(al) ==
    \/ Len(al.startTimes) # Len(al.characters)
    \/ Len(al.endTimes) # Len(al.characters)
    \/ \E i \in 1..(Len(al.startTimes) - 1) : al.startTimes[i + 1] < al.startTimes[i]
    \/ \E i \in 1..(Len(al.endTimes) - 1) : al.endTimes[i + 1] < al.endTimes[i]

\* C12: on an alignment with arrays of different lengths or non-monotonic times
\* the slicing aborts: no segment's audio fields change and no master audio is
\* installed
C12_MalformedAborts ==
    [][(SliceStep /\ Malformed(genResult'.alignment))
       => (/\ AudioFieldsOf(clips') = AudioFieldsOf(clips)
           /\ masterAudioUrl' = masterAudioUrl)]_vars

\* C13: when the synthesis call or the slicing fails, the master audio handle and
\* every segment's audio fields are after the operation what they were before it
C13_FailureKeepsAudio ==
    [][(genPhase = "synth" /\ genPhase' = "idle")
       => (/\ masterAudioUrl' = masterAudioUrl
           /\ AudioFieldsOf(clips') = AudioFieldsOf(clips))]_vars

\* a generation has failed on segments that carry audio fields of an earlier one
C13_FailedWithAudio ==
    /\ genPhase = "idle"
    /\ genResult.kind \in {"rejected", "noAlignment"}
    /\ \E i \in 1..Len(clips) : HasAudio(clips[i])

-----------------------------------------------------------------------------
(* Claims about a live tick *)

\* a tick that finds a segment at the audio time and syncs the video to it
LiveTick ==
    /\ audTickPending /\ ~audTickPending'
    /\ masterAudioUrl # NoUrl /\ ~isTransitioning
    /\ CurrentClipIndex(clips, audTime) # 0

TickedClip == clips[CurrentClipIndex(clips, audTime)]

TickTarget == TargetVideoTime(TickedClip, audTime)

\* the segment {sourceStart 10, sourceEnd 20, audioStart 0, audioEnd 5}, audio at 2.5
ExampleTick ==
    /\ TickedClip.startTime = 1000 /\ TickedClip.endTime = 2000
    /\ TickedClip.audioStartTime = 0 /\ TickedClip.audioEndTime = 500
    /\ audTime = 250

\* C14 as stated: on a live tick a drift of 0.19 s causes no seek and a drift of
\* 0.21 s causes a seek to the target; for the segment {10, 20, 0, 5} with the
\* audio at 2.5 a video at 14.82 is not seeked and a video at 14.78 is seeked to 15
C14_DriftThresholdAsStated ==
    [][LiveTick =>
         /\ AbsDiff(vidTime, TickTarget) = 19 => vidTime' = vidTime
         /\ AbsDiff(vidTime, TickTarget) = 21 => vidTime' = TickTarget
         /\ (ExampleTick /\ vidTime = 1482) => vidTime' = 1482
         /\ (ExampleTick /\ vidTime = 1478) => vidTime' = 1500]_vars

\* C14: on a live tick on a segment whose rate is below the ceiling a drift of
\* 0.19 s causes no seek and a drift of 0.21 s causes a seek to the target; for
\* the segment {10, 20, 0, 5} the rate is pinned at the ceiling, and with the
\* audio at 2.5 neither a video at 14.82 nor a video at 14.78 is seeked
C14_DriftThreshold ==
    [][LiveTick =>
         /\ (RequiredRate(TickedClip) < MAX_VIDEO_RATE
               /\ AbsDiff(vidTime, TickTarget) = 19) => vidTime' = vidTime
         /\ (RequiredRate(TickedClip) < MAX_VIDEO_RATE
               /\ AbsDiff(vidTime, TickTarget) = 21) => vidTime' = TickTarget
         /\ (ExampleTick /\ vidTime \in {1478, 1482}) => vidTime' = vidTime]_vars

\* a tick has synced a segment below the ceiling and left the video 0.19 s away
\* from the target
C14_TickedWithinTolerance ==
    /\ ~audTickPending
    /\ vidRate = RequiredRate(clips[1]) /\ vidRate < MAX_VIDEO_RATE
    /\ AbsDiff(vidTime, TargetVideoTime(clips[1], audTime)) = 19

\* C15: the drift correction of a live tick: with the rate below the ceiling the
\* video is seeked to the target exactly when the drift exceeds 0.2 s; with the
\* rate pinned at the ceiling it is seeked only when it lies before the segment's
\* sourceStart, and then to sourceStart; otherwise its position is untouched
C15_DriftPolicy ==
    [][LiveTick =>
         IF vidRate' < 1500
         THEN vidTime' = IF AbsDiff(vidTime, TickTarget) > 20
                         THEN TickTarget ELSE vidTime
         ELSE vidTime' = IF vidTime < TickedClip.startTime
                         THEN TickedClip.startTime ELSE vidTime]_vars

\* a tick at the ceiling has pulled a video from before the segment to its start
C15_PinnedSeekToStart ==
    /\ ~audTickPending
    /\ vidRate = MAX_VIDEO_RATE
    /\ vidTime = clips[1].startTime
    /\ vidTime < TargetVideoTime(clips[1], audTime) - 20

\* C16: every playback rate assigned to the preview video lies within [0.1, 1.5]
\* and every playback rate assigned to the export video within [0.1, 4.0]
C16_RatesWithinLimits ==
    /\ vidRate >= 100 /\ vidRate <= 1500
    /\ exVidRate >= 100 /\ exVidRate <= 4000

\* a tick has pinned the preview at 1.5 and a frame has clamped the export to 4.0
C16_BothCeilingsAssigned ==
    /\ ~audTickPending /\ vidRate = 1500
    /\ exPhase = "running" /\ exVidRate = 4000

\* C17: the base rate a live tick uses for a segment is the one the slicer
\* calculates for it: videoDuration / audioDuration when audioDuration > 0.1 s and
\* 1.0 otherwise, before the speed multiplier, the cap and the floor
C17_BaseRateAsCalculated ==
    [][LiveTick =>
         LET audioDuration == TickedClip.audioEndTime - TickedClip.audioStartTime
             videoDuration == TickedClip.endTime - TickedClip.startTime
             base == SliceRate(audioDuration, videoDuration)
         IN  vidRate' = Max2(MIN_VIDEO_RATE,
                             Min2(MAX_VIDEO_RATE,
                                  (base * ELEVEN_LABS_SPEED) \div RATE_ONE))]_vars

\* the segment and the target video time the live tick computes at audio time t
LiveSelection(t) ==
    LET i == CurrentClipIndex(clips, t)
    IN  IF i = 0 THEN <<0, 0>> ELSE <<clips[i].id, TargetVideoTime(clips[i], t)>>

\* the segment and the target video time the export loop computes at audio time t
ExportSelection(t) ==
    LET i == ExportClipIndex(clips, t)
    IN  IF i = 0 THEN <<0, 0>>
        ELSE <<clips[i].id,
               ExportTargetVideoTime(clips[i], t - AccumulatedDuration(clips, i - 1))>>

\* C18: at every master-audio time an export reaches, the export loop selects the
\* segment and computes the target video time that the live tick computes for the
\* same segment list at that time
C18_ExportSelectsAsLive ==
    (masterAudioUrl # NoUrl /\ exPhase = "running" /\ audioElement = "live")
        => ExportSelection(exTime) = LiveSelection(exTime)

-----------------------------------------------------------------------------
(* Claims about the mirroring of the audio element by the video *)

\* the audio element is playing: neither paused nor waiting for data
AudioPlays == ~audPaused /\ ~audStalled

\* a queued event of the audio element is dispatched to onPlay / onPause
EventHandled ==
    /\ masterAudioUrl # NoUrl
    /\ audEvents # <<>> /\ audEvents' = Tail(audEvents)

Mirrored(vPaused, aPaused, aStalled) ==
    /\ ~(vPaused /\ ~aPaused /\ ~aStalled)
    /\ ~(~vPaused /\ aPaused)

\* C19 as stated: in master-audio mode, after each handled event of the audio
\* element and after each tick the video is not left paused while the audio
\* plays, nor playing while the audio is paused
C19_MirroredAfterEachEvent ==
    [][(EventHandled \/ LiveTick) => Mirrored(vidPaused', audPaused', audStalled')]_vars

\* C19: in master-audio mode the video is paused after a handled pause or waiting
\* and playing after a handled play or playing; once no later event of the audio
\* element is queued behind the handled one, the video is not left paused while
\* the audio plays nor playing while the audio is paused; and a tick that syncs a
\* segment does not leave the video paused while the audio is not paused
C19_MirroredOnceEventsHandled ==
    [][/\ EventHandled =>
            /\ Head(audEvents) \in {"pause", "waiting"} => vidPaused'
            /\ Head(audEvents) \in {"play", "playing"} => ~vidPaused'
            /\ audEvents' = <<>> => Mirrored(vidPaused', audPaused', audStalled')
       /\ LiveTick => ~(vidPaused' /\ ~audPaused')]_vars

\* the audio waits for data, its 'waiting' has been handled and the video is paused
C19_VideoPausedWhileWaiting ==
    /\ masterAudioUrl # NoUrl
    /\ audStalled /\ ~audPaused /\ isPlaying
    /\ audEvents = <<>>
    /\ vidPaused

-----------------------------------------------------------------------------
(* Claims about the sequencer without master audio *)

ActiveIndex == FindIndex(clips, activeClipId)

\* C20: without master audio, a video tick that finds the video at or past the
\* active segment's sourceEnd makes the next segment active and seeks the video
\* to its sourceStart; on the last segment it stops the playback and returns to
\* the first segment: active = first, video at its sourceStart, sequence time 0
C20_FallbackAdvance ==
    [][(/\ OnVideoTimeUpdate
        /\ ActiveIndex # 0
        /\ vidTime >= clips[ActiveIndex].endTime)
       => IF ActiveIndex < Len(clips)
          THEN /\ activeClipId' = clips[ActiveIndex + 1].id
               /\ vidTime' = clips[ActiveIndex + 1].startTime
          ELSE /\ ~isPlaying' /\ vidPaused'
               /\ activeClipId' = clips[1].id
               /\ vidTime' = clips[1].startTime
               /\ currentSequenceTime' = 0]_vars

\* started once, the playback has run through the last segment and was stopped by
\* the sequencer, back at the first segment
C20_ReturnedToFirst ==
    /\ masterAudioUrl = NoUrl
    /\ playOps = 1
    /\ ~isPlaying /\ vidPaused
    /\ activeClipId = clips[1].id
    /\ vidTime = clips[1].startTime
    /\ currentSequenceTime = 0

-----------------------------------------------------------------------------
(* Claims about the slicer *)

\* the number of dots that immediately precede position i of a stream
DotRunBefore(chars, i) ==
    CHOOSE k \in 0..(i - 1) :
        /\ \A j \in (i - k)..(i - 1) : chars[j] = "."
        /\ k = i - 1 \/ chars[i - k - 1] # "."

\* the positions at which a left-to-right reader finds a delimiter: three dots
\* that start a run of dots or follow whole delimiters of that run
DetectedDelimiters(chars) ==
    { i \in 1..(Len(chars) - 2) :
        /\ chars[i] = "." /\ chars[i + 1] = "." /\ chars[i + 2] = "."
        /\ DotRunBefore(chars, i) % 3 = 0 }

\* the elements of a set of numbers in ascending order
Ascending(S) ==
    [k \in 1..Cardinality(S) |->
        CHOOSE x \in S : Cardinality({y \in S : y < x}) = k - 1]

ExampleStream == <<"A", ".", ".", ".", "B">>

\* C21: for every delimiter detected at position i, the preceding segment's
\* provisional end is the start time of character i and the following segment's
\* provisional start is the start time of the character after the delimiter, or
\* the end time of the delimiter's last character when nothing follows; in
\* A...B exactly one delimiter, on the three dots, is detected
C21_DelimiterBoundaries ==
    [][SliceStep =>
        LET al == genResult'.alignment
            n == Len(al.characters)
            d == Ascending(DetectedDelimiters(al.characters))
            b == ClipBoundaries(al)
        IN  /\ Len(b) = Len(d) + 1
            /\ \A k \in 1..Len(d) :
                 /\ b[k].end = al.startTimes[d[k]]
                 /\ b[k + 1].start = IF d[k] + 3 <= n
                                     THEN al.startTimes[d[k] + 3]
                                     ELSE al.endTimes[d[k] + 2]
                 /\ k + 1 <= Len(clips') => clips'[k + 1].audioStartTime = b[k + 1].start
            /\ al.characters = ExampleStream => d = <<2>>]_vars

\* the example stream, a silence after every character, sliced for two segments
C21_ExampleSliced ==
    /\ genPhase = "persist"
    /\ genResult.kind = "alignment"
    /\ genResult.alignment = TimedAlignment(ExampleStream, [step |-> 30, group |-> 1])
    /\ Len(clips) = 2
    /\ clips[1].audioStartTime = 0
    /\ clips[1].audioEndTime = 120
    /\ clips[2].audioStartTime = 120

\* an alignment as the claim admits it: three arrays of one length, start times
\* and end times that never run backwards
NonDecreasing(times) == \A i \in 1..(Len(times) - 1) : times[i] <= times[i + 1]

WellFormed(al) ==
    /\ Len(al.startTimes) = Len(al.characters)
    /\ Len(al.endTimes) = Len(al.characters)
    /\ NonDecreasing(al.startTimes)
    /\ NonDecreasing(al.endTimes)

\* C22: for an alignment with arrays of equal length and non-decreasing times,
\* the windows the slicer assigns are non-decreasing in list order and every
\* window is non-empty (audioStart < audioEnd) after pause absorption
C22_WindowsOrderedAndNonEmpty ==
    [][(SliceStep /\ WellFormed(genResult'.alignment)) =>
        LET u == ClipUpdates(TasksOf(genClips), ClipBoundaries(genResult'.alignment))
        IN  /\ \A k \in 1..Len(u) :
                 /\ u[k].start < u[k].end
                 /\ clips'[k].audioStartTime = u[k].start
                 /\ clips'[k].audioEndTime = u[k].end
            /\ \A k \in 1..(Len(u) - 1) :
                 /\ u[k].start <= u[k + 1].start
                 /\ u[k].end <= u[k + 1].start]_vars

\* the segment of a list that carries an id
ClipOf(cs, id) == cs[CHOOSE i \in 1..Len(cs) : cs[i].id = id]

\* C23: after pause absorption over the N participating segments, each segment
\* but the last ends exactly where the next one starts, and the last one ends
\* 0.5 s after the end time of the final character of the stream
C23_AbsorbedEnds ==
    [][SliceStep =>
        LET al == genResult'.alignment
            tasks == TasksOf(genClips)
            N == Len(tasks)
        IN  /\ \A i \in 1..(N - 1) :
                 /\ ClipOf(clips', tasks[i].id).audioEndTime # UNDEFINED
                 /\ ClipOf(clips', tasks[i].id).audioEndTime
                       = ClipOf(clips', tasks[i + 1].id).audioStartTime
            /\ ClipOf(clips', tasks[N].id).audioEndTime
                  = al.endTimes[Len(al.endTimes)] + 50]_vars

-----------------------------------------------------------------------------
(* Claims about operations in flight *)

\* a synthesis of the master audio is awaited before and after the step: the
\* step is not one of handleGenerateAllAudio's own
SynthesisPending == genPhase = "synth" /\ genPhase' = "synth"

\* C24: at most one mutating operation is in flight at a time: while the
\* generation of the master audio is pending, no other operation writes the
\* segment list or the master audio handle
C24_NoWriteWhilePending ==
    [][SynthesisPending => (clips' = clips /\ masterAudioUrl' = masterAudioUrl)]_vars

-----------------------------------------------------------------------------
(* Claims about the sequence coordinates of the Timeline *)

\* the clips of a list lie in source order and do not overlap
SortedInSource(cs) ==
    \A i \in 1..Len(cs), j \in 1..Len(cs) : i < j => cs[i].endTime <= cs[j].startTime

InsideSomeClip(cs, t) ==
    \E i \in 1..Len(cs) : cs[i].startTime <= t /\ t < cs[i].endTime

\* C27: for a non-empty clip list that is sorted and non-overlapping in source
\* time and a source time t inside a clip, converting t to sequence time and
\* back gives t again (here: up to one step of the number format at t)
C27_RoundTrip ==
    [][(/\ HandleTimelineClick
        /\ tlClips # <<>>
        /\ SortedInSource(tlClips)
        /\ InsideSomeClip(tlClips, tlRawTime)
        /\ tlSeqTime' = RawVideoTimeToSequenceTime(tlClips, tlRawTime))
       => /\ tlRawTime' - tlRawTime <= Spacing(tlRawTime, 1)
          /\ tlRawTime - tlRawTime' <= Spacing(tlRawTime, 1)]_vars

-----------------------------------------------------------------------------
(* Claims about the thumbnail cache *)

\* C29: after any sequence of get, set, cleanup and clear operations the
\* thumbnail cache holds at most 20 entries
C29_AtMostTwentyEntries == Len(cache) <= 20

KeysOf(c) == {c[i].key : i \in 1..Len(c)}

\* C30: the cache evicts by least-recent access: a set removes an entry only
\* when it inserts a new key into a cache that is at capacity, the entry removed
\* is then one with the oldest last-access time, and a successful get counts as
\* an access (the entry's last-access time becomes the time of the get)
C30_EvictsLeastRecent ==
    [][\A key \in CacheKeys :
         /\ CacheSet(key) =>
              LET removed == KeysOf(cache) \ KeysOf(cache')
              IN  removed # {} =>
                    /\ key \notin KeysOf(cache)
                    /\ Len(cache) >= 20
                    /\ \E r \in 1..Len(cache) :
                         /\ removed = {cache[r].key}
                         /\ \A i \in 1..Len(cache) :
                              cache[r].lastAccessed <= cache[i].lastAccessed
         /\ (CacheGet(key) /\ key \in KeysOf(cache'))
              => cache'[CacheIndex(cache', key)].lastAccessed = now]_vars

-----------------------------------------------------------------------------
(* Claims about the waveform cache *)

\* C31: the waveform cache is bounded, least-recently-used entries being evicted
\* as new ones are stored: the number of cached waveforms stays within a fixed
\* capacity, so that with more distinct waveforms stored than the capacity (any
\* capacity below MaxWaveforms) the cache does not hold all of them
C31_WaveformCacheBounded == Cardinality(waveformCache) < MaxWaveforms

-----------------------------------------------------------------------------
(* Claims about the text sent to synthesis *)

\* C32: for any list of N participating texts, sanitised and joined with the
\* delimiter, the scan of the character stream of the joined text, with or
\* without its whitespace characters, detects exactly N-1 delimiters: the
\* boundary list has exactly N entries
C32_OneBoundaryPerText ==
    genResult.kind = "alignment"
      => Len(ClipBoundaries(genResult.alignment)) = Len(TasksOf(genClips))

-----------------------------------------------------------------------------
(* Claims about the sequencer after manual seeks *)

\* nothing of a seek is left to happen: no timer runs, the lock is clear, no media
\* event and no tick is queued
SeekSettled ==
    /\ timers = {}
    /\ ~isTransitioning
    /\ audEvents = <<>>
    /\ ~audTickPending

\* C33: after a manual seek on the scrub bar while playing in master-audio mode
\* the playing flag and the audio come to agree again: once the seek has settled,
\* with the audio short of its end, the audio is playing or the playing flag is
\* false; the sequencer does not stay with the flag set while the audio is paused
C33_SeekResumesAudio ==
    (masterAudioUrl # NoUrl /\ SeekSettled /\ audTime < audDuration)
      => (~audPaused \/ ~isPlaying)

-----------------------------------------------------------------------------
(* Claims about the footage that is played *)

\* C34: in fallback mode, while playing, the video's current time after each
\* tick lies within the active segment's source window [sourceStart, sourceEnd]:
\* footage outside the active segment is never played
C34_TickInsideActiveWindow ==
    [][(OnVideoTimeUpdate /\ isPlaying')
       => \E i \in 1..Len(clips') :
            /\ clips'[i].id = activeClipId'
            /\ vidTime' >= clips'[i].startTime
            /\ vidTime' <= clips'[i].endTime]_vars

\* C35: on every export frame that selects a segment the target video time lies
\* within that segment's source window [sourceStart, sourceEnd], for every
\* segment list the editor can reach, with or without a master audio and with
\* or without audio fields on the segments (stated at every time of a running
\* export, at which a frame may be rendered)
C35_ExportTargetInWindow ==
    exPhase = "running"
      => LET k == ExportClipIndex(clips, exTime)
         IN  k # 0 =>
               LET targetVideoTime ==
                     ExportTargetVideoTime(clips[k],
                                           exTime - AccumulatedDuration(clips, k - 1))
               IN  /\ targetVideoTime >= clips[k].startTime
                   /\ targetVideoTime <= clips[k].endTime

-----------------------------------------------------------------------------
(* Claims about the active segment *)

\* C36: in every reachable state the active segment id is null or the id of a
\* segment of the list, across analysis, upload of a new video, delete, split,
\* redundancy cut, seek and playback
C36_ActiveIsInList ==
    activeClipId = 0 \/ \E i \in 1..Len(clips) : clips[i].id = activeClipId

-----------------------------------------------------------------------------
(* Claims about the polishing of the scripts *)

\* C37: a polish request that fails, or that returns no improvements, leaves the
\* master audio handle and every segment's text unchanged
C37_EmptyPolishKeepsAudio ==
    [][(isPolishing /\ ~isPolishing' /\ PolishResponse({}))
       => /\ masterAudioUrl' = masterAudioUrl
          /\ Len(clips') = Len(clips)
          /\ \A i \in 1..Len(clips) :
               clips'[i].improvedTranscript = clips[i].improvedTranscript]_vars

-----------------------------------------------------------------------------
(* Claims about the manual-seek lock *)

\* C38: the manual-seek lock is never held forever: once no further seek occurs
\* the lock is cleared, stays cleared, and audio ticks are no longer suppressed
C38_LockEventuallyCleared == <>[](~isTransitioning /\ ~TickSuppressed)

\* a seek to the middle of the bar during master-audio playback has been made
\* and its lock has been cleared by the timer
C38_LockCleared ==
    /\ playOps > 1
    /\ isPlaying /\ audPaused /\ audEvents = <<>>
    /\ currentSequenceTime = TotalSequenceDuration(clips) \div 2
    /\ ~isTransitioning
    /\ timers = {}

-----------------------------------------------------------------------------
(* Claims about generation with retry and fallback *)

\* C39: a generateWithFallback call makes at most three generation attempts, in
\* the order primary, primary, fallback; the retry is made only after a
\* rate-limit error (status 429, or '429' or 'quota' in the message) on the first
\* attempt and only after the 4-second delay; the fallback model is tried only
\* after the retry has failed; an error on the first attempt that is no
\* rate-limit error is rethrown without retry or fallback
C39_AtMostThreeAttempts ==
    LET n == Len(gwfAttempts)
        first == gwfAttempts[1].outcome
        RateLimited(e) ==
            /\ e.kind = "error"
            /\ \/ e.status = 429
               \/ \E i \in 1..Len(e.message) : e.message[i] \in {"429", "quota"}
    IN  /\ n <= 3
        /\ \A i \in 1..n : gwfAttempts[i].model = <<"primary", "primary", "fallback">>[i]
        /\ (gwfPc = "attempt2" \/ n >= 2) => (RateLimited(first) /\ gwfWaited = 4000)
        /\ (gwfPc = "attempt3" \/ n >= 3) => gwfAttempts[2].outcome.kind = "error"
        /\ (n >= 1 /\ first.kind = "error" /\ ~RateLimited(first))
             => (gwfPc = "rejected" /\ n = 1 /\ gwfWaited = 0)
        /\ gwfPc = "resolved" => gwfAttempts[n].outcome.kind = "response"
        /\ gwfPc = "rejected" => gwfAttempts[n].outcome.kind = "error"

\* all three attempts were made: rate limit, failed retry, answer of the fallback
C39_FallbackAnswered ==
    /\ gwfPc = "resolved"
    /\ Len(gwfAttempts) = 3
    /\ gwfAttempts[3].model = "fallback"
    /\ gwfWaited = 4000

-----------------------------------------------------------------------------
(* Claims about the zoom of the Timeline *)

\* C40: a Ctrl/Cmd wheel event with deltaY > 0 never increases the zoom scale,
\* one with deltaY < 0 never decreases it, and the resulting zoom scale stays
\* within [0.1, 10]
C40_WheelDirection ==
    [][\A deltaY \in WheelDeltas, elapsed \in WheelGapsMs :
         HandleWheelZoom(TRUE, deltaY, elapsed)
           => /\ deltaY > 0 => zoomScale' <= zoomScale
              /\ deltaY < 0 => zoomScale' >= zoomScale
              /\ zoomScale' >= 1000 /\ zoomScale' <= 100000]_vars

-----------------------------------------------------------------------------
(* Claims about the export *)

\* C5: during an export completion is triggered exactly once, whatever the order of
\* the audio's ended event and the frames that see the ended flag or the time
\* threshold: finishRender passes its guard at most once, recorder.stop() is called
\* at most once, resolve is called at most once, and a resolved export has seen
\* each of them exactly once.
C5_CompletionOnce ==
    /\ finishRuns <= 1
    /\ stopCalls <= 1
    /\ resolveCalls <= 1
    /\ exPromise = "resolved" => (finishRuns = 1 /\ stopCalls = 1 /\ resolveCalls = 1)

\* both triggers called finishRender, and the export resolved
C5_BothTriggersFired == finishCalls >= 2 /\ exPromise = "resolved"

\* cleanup has run on the resources of the export
TornDown == video = "released"

\* C6: once the resources of an export have been torn down, no frame callback is
\* pending, whatever the order of the finish path and an invocation of the render
\* loop suspended at its await of video.play().
C6_NoFrameAfterTeardown == TornDown => ~framePending

\* nothing of the export is left to run: setup is over, no frame callback, no
\* suspended invocation of the loop, no queued event, and the audio is not playing
ExportAtRest ==
    /\ exPromise # "none"
    /\ exPhase \notin {"preload", "audioPlay"}
    /\ ~framePending
    /\ renderLoopPc # "awaitPlay"
    /\ ~stopEventPending
    /\ ~endedEventPending
    /\ audioElement = "live" => exAudPaused

AllReleased ==
    /\ video # "live"
    /\ canvas # "live"
    /\ audioElement # "live"
    /\ audioCtx # "live"

\* C7: an export that has acquired resources has released all of them (hidden
\* video, canvas, audio element, audio context) once it has come to rest, on every
\* exit path: completion, an error during setup, an error inside the render loop.
C7_ResourcesReleased == ExportAtRest => AllReleased

\* C8: every started export settles: once nothing of it is left to run, its
\* promise is resolved or rejected.
C8_ExportSettles == ExportAtRest => exPromise \in {"resolved", "rejected"}

\* the completion steps in the order the export has to take them
CompletionOrder == <<"cancelFrame", "pauseAuthority", "stopRecorder", "resolve">>

IsPrefix(a, b) == Len(a) <= Len(b) /\ SubSeq(b, 1, Len(a)) = a

\* C9: on every completion path the steps are taken in this order: frame scheduling
\* is cancelled, the authority is paused, the recorder is stopped, and only then the
\* promise resolves; at the resolve no frame is pending, audio and video are paused
\* and the recorder is inactive.
C9_CompletionOrder ==
    /\ [](/\ IsPrefix(exSteps, CompletionOrder)
          /\ exPromise = "resolved" => exSteps = CompletionOrder)
    /\ [][resolveCalls' > resolveCalls
             => (~framePending' /\ exAudPaused' /\ exVidPaused'
                 /\ recorder' = "inactive")]_vars

\* an export with master audio has resolved after all four steps
C9_ResolvedInOrder ==
    exPromise = "resolved" /\ exSteps = CompletionOrder /\ audioElement = "released"

\* the steps by which a caller acts on an export: renderVideo takes the file, the
\* audio url, the clips and a progress callback and returns only its promise, so
\* handleExport is the one operation there is
CallerOnExport == HandleExport

\* C26: a caller can cancel a running export at any time, and the cancellation
\* releases every resource the export acquired and settles its promise: while
\* the promise is pending, a step of the caller that does so is possible
C26_CancelAvailable ==
    exPromise = "pending"
      => ENABLED (CallerOnExport /\ exPromise' # "pending" /\ AllReleased')

====
